---- MODULE Spec2Model ----
(***************************************************************************)
(* A model of the ragged-array adaptation layer (scikit-hep/ragged):       *)
(* the CF contiguous/indexed interchange (io/cf.py), the array object      *)
(* with its constructor, _box, _shape_dtype, to_device, astype and         *)
(* in-place operators (_spec_array_object.py), the ragged-native linear    *)
(* algebra (matrix_transpose and matmul in                                 *)
(* _spec_linear_algebra_functions.py), take (_spec_indexing_functions.py), *)
(* sum and prod with their axis and dtype regularisation                   *)
(* (_spec_statistical_functions.py), is_effectively_regular                *)
(* (_helper_functions.py), expand_dims and squeeze                         *)
(* (_spec_manipulation_functions.py), unique_all (_spec_set_functions.py), *)
(* the functions that only raise NotImplementedError, iteration and the    *)
(* reflected operators of the array object, and round                      *)
(* (_spec_elementwise_functions.py).                                       *)
(*                                                                         *)
(* A Python nested list is a TLA+ sequence of sequences; an array value    *)
(* carries its number of dimensions next to its nested-list value because  *)
(* an empty list does not tell its depth.                                  *)
(***************************************************************************)
EXTENDS Integers, Sequences, FiniteSets, TLC

VARIABLES cf_pc, cf_x, cf_content, cf_index, cf_counts, cf_out,
          heap, arrs, last,
          mt_pc, mt_x, mt_out, mt_twice,
          mm_pc, mm_x1, mm_x2, mm_calls, mm_out,
          sd_pc, sd_layout, sd_out,
          tk_pc, tk_x, tk_indices, tk_axis, tk_out,
          st_pc, st_x, st_axis, st_dtype, st_out,
          hf_pc, hf_x, hf_out,
          mp_pc, mp_x, mp_axis, mp_a, mp_sq_axis, mp_b,
          un_pc, un_x, un_out,
          ph_pc, ph_x1, ph_x2, ph_arg, ph_out,
          it_pc, it_x, it_out, it_gen, it_ops,
          rd_pc, rd_x, rd_out

cfVars == <<cf_pc, cf_x, cf_content, cf_index, cf_counts, cf_out>>

objVars == <<heap, arrs, last>>

mtVars == <<mt_pc, mt_x, mt_out, mt_twice>>

mmVars == <<mm_pc, mm_x1, mm_x2, mm_calls, mm_out>>

sdVars == <<sd_pc, sd_layout, sd_out>>

tkVars == <<tk_pc, tk_x, tk_indices, tk_axis, tk_out>>

stVars == <<st_pc, st_x, st_axis, st_dtype, st_out>>

hfVars == <<hf_pc, hf_x, hf_out>>

mpVars == <<mp_pc, mp_x, mp_axis, mp_a, mp_sq_axis, mp_b>>

unVars == <<un_pc, un_x, un_out>>

phVars == <<ph_pc, ph_x1, ph_x2, ph_arg, ph_out>>

itVars == <<it_pc, it_x, it_out, it_gen, it_ops>>

rdVars == <<rd_pc, rd_x, rd_out>>

vars == <<cf_pc, cf_x, cf_content, cf_index, cf_counts, cf_out, heap, arrs, last,
          mt_pc, mt_x, mt_out, mt_twice, mm_pc, mm_x1, mm_x2, mm_calls, mm_out,
          sd_pc, sd_layout, sd_out, tk_pc, tk_x, tk_indices, tk_axis, tk_out,
          st_pc, st_x, st_axis, st_dtype, st_out,
          hf_pc, hf_x, hf_out,
          mp_pc, mp_x, mp_axis, mp_a, mp_sq_axis, mp_b,
          un_pc, un_x, un_out,
          ph_pc, ph_x1, ph_x2, ph_arg, ph_out,
          it_pc, it_x, it_out, it_gen, it_ops,
          rd_pc, rd_x, rd_out>>

(***************************************************************************)
(* Bounds of the model.                                                    *)
(***************************************************************************)
MaxLen == 2
MaxRows == 2
CfMaxRows == 4
MaxContent == 4
MaxRowNo == 2
MaxBatch == 3

(***************************************************************************)
(* Generic helpers on sequences.                                           *)
(***************************************************************************)
SeqsUpTo(S, n) == UNION {[1..k -> S] : k \in 0..n}

RECURSIVE SumSeq(_)
SumSeq(s) == IF s = <<>> THEN 0 ELSE Head(s) + SumSeq(Tail(s))

RECURSIVE MaxSeq(_)
MaxSeq(s) == IF Len(s) = 1 THEN s[1]
             ELSE LET m == MaxSeq(Tail(s)) IN IF s[1] > m THEN s[1] ELSE m

RECURSIVE ConcatAll(_)
ConcatAll(ss) == IF ss = <<>> THEN <<>> ELSE Head(ss) \o ConcatAll(Tail(ss))

\* the sequences that enumerate the finite set S, each element once
RECURSIVE PermsOf(_)
PermsOf(S) == IF S = {} THEN {<<>>}
              ELSE UNION {{<<e>> \o p : p \in PermsOf(S \ {e})} : e \in S}

\* ak.unflatten(flat, counts): cut flat into rows of the given lengths
RECURSIVE ak_unflatten(_, _)
ak_unflatten(flat, counts) ==
    IF counts = <<>> THEN <<>>
    ELSE <<SubSeq(flat, 1, counts[1])>>
         \o ak_unflatten(SubSeq(flat, counts[1] + 1, Len(flat)), Tail(counts))

\* The inputs of the model are ragged structures whose elements are the
\* numbers 1, 2, 3, ... in buffer order: the code under study never branches
\* on an element's value, so distinct elements show every reordering.
RowLengths(maxRows) == SeqsUpTo(0..MaxLen, maxRows)
Labelled(lens) == ak_unflatten([k \in 1..SumSeq(lens) |-> k], lens)

\* an outcome of a call: a returned value or a raised exception
Ok(v) == [err |-> "none", val |-> v]
Raise(e) == [err |-> e, val |-> <<>>]
Unset == [err |-> "unset", val |-> <<>>]

\* the operand recorded for an operation that has none
NoOther == [k |-> "none", v |-> [lib |-> "py", backend |-> "cpu", ndim |-> 0,
                                 dtype |-> "int64", val |-> <<0>>], h |-> 0]

CfIdle ==
    /\ cf_pc = "idle"
    /\ cf_x = <<>>
    /\ cf_content = <<>>
    /\ cf_index = <<>>
    /\ cf_counts = <<>>
    /\ cf_out = Unset

MmIdle ==
    /\ mm_pc = "idle"
    /\ mm_x1 = Unset
    /\ mm_x2 = Unset
    /\ mm_calls = <<>>
    /\ mm_out = Unset

MtIdle ==
    /\ mt_pc = "idle"
    /\ mt_x = Unset
    /\ mt_out = Unset
    /\ mt_twice = Unset

SdIdle ==
    /\ sd_pc = "idle"
    /\ sd_layout = <<>>
    /\ sd_out = Unset

TkIdle ==
    /\ tk_pc = "idle"
    /\ tk_x = Unset
    /\ tk_indices = <<>>
    /\ tk_axis = [given |-> FALSE, a |-> 0]
    /\ tk_out = Unset

StIdle ==
    /\ st_pc = "idle"
    /\ st_x = Unset
    /\ st_axis = [kind |-> "None", a |-> 0, t |-> <<>>]
    /\ st_dtype = "None"
    /\ st_out = Unset

HfIdle ==
    /\ hf_pc = "idle"
    /\ hf_x = Unset
    /\ hf_out = Unset

MpIdle ==
    /\ mp_pc = "idle"
    /\ mp_x = Unset
    /\ mp_axis = 0
    /\ mp_a = Unset
    /\ mp_sq_axis = <<>>
    /\ mp_b = Unset

UnIdle ==
    /\ un_pc = "idle"
    /\ un_x = Unset
    /\ un_out = Unset

PhIdle ==
    /\ ph_pc = "idle"
    /\ ph_x1 = Unset
    /\ ph_x2 = Unset
    /\ ph_arg = 0
    /\ ph_out = Unset

ItIdle ==
    /\ it_pc = "idle"
    /\ it_x = Unset
    /\ it_out = Unset
    /\ it_gen = Unset
    /\ it_ops = 0

RdIdle ==
    /\ rd_pc = "idle"
    /\ rd_x = Unset
    /\ rd_out = Unset

ObjIdle ==
    /\ heap = <<>>
    /\ arrs = <<>>
    /\ last = [op |-> "none", target |-> 0, other |-> NoOther, self |-> 0, arg |-> "None",
               n |-> 0, ip |-> 0, shared |-> FALSE]

(***************************************************************************)
(* io/cf.py: the CF indexed encoding of a two-dimensional array.           *)
(***************************************************************************)
\* ak.flatten(y): the elements of every row, in row order
ak_flatten(y) == ConcatAll(y)

\* ak.num(y): the length of every row
ak_num(y) == [r \in 1..Len(y) |-> Len(y[r])]

\* ak.broadcast_arrays(arange(len(x)), y)[0]: the (0-based) row number of
\* every element, with the row structure of y
broadcast_index(y) == [r \in 1..Len(y) |-> [c \in 1..Len(y[r]) |-> r - 1]]

\* to_cf_indexed(x) for x.ndim = 2: (content, index)
to_cf_indexed(y) == <<ak_flatten(y), ak_flatten(broadcast_index(y))>>

\* counts after ns.zeros(n) and ns.add.at(counts, ind, 1)
add_at_counts(n, ind) ==
    [r \in 1..n |-> Cardinality({k \in 1..Len(ind) : ind[k] = r - 1})]

\* ns.argsort(ind) with the default (unstable) kind: any permutation of the
\* positions that puts ind in non-decreasing order
RECURSIVE argsort_from(_, _, _)
argsort_from(ind, r, n) ==
    IF r >= n THEN {<<>>}
    ELSE {p \o q : p \in PermsOf({k \in 1..Len(ind) : ind[k] = r}),
                   q \in argsort_from(ind, r + 1, n)}

argsort(ind) == IF ind = <<>> THEN {<<>>}
                ELSE argsort_from(ind, 0, MaxSeq(ind) + 1)

\* from_cf_indexed(content, index), order being the value of ns.argsort(ind)
from_cf_indexed(cont, ind, order) ==
    IF ind = <<>>
    THEN Raise("TypeError")      \* ak.max of an empty array is None; None + 1
    ELSE LET counts == add_at_counts(MaxSeq(ind) + 1, ind)
         IN Ok(ak_unflatten([k \in 1..Len(order) |-> cont[order[k]]], counts))

\* to_cf_contiguous(x) for x.ndim = 2: (content, counts)
to_cf_contiguous(y) == <<ak_flatten(y), ak_num(y)>>

\* a variant that loses the rows without elements
from_cf_contiguous_skipping_empty(cont, cnts) ==
    Ok(ak_unflatten(cont, SelectSeq(cnts, LAMBDA n : n > 0)))

\* from_cf_contiguous(content, counts)
from_cf_contiguous(cont, cnts) == Ok(ak_unflatten(cont, cnts))

\* the index buffers a caller can hand to from_cf_indexed: row numbers in
\* any order, one per element of the content 1, 2, 3, ...
GivenIndexes == SeqsUpTo(0..MaxRowNo, MaxContent)

\* either a two-dimensional array x to encode, or a content and an index
\* buffer given by the caller
CfInit ==
    /\ \/ /\ cf_pc = "start"
          /\ cf_x \in {Labelled(lens) : lens \in RowLengths(CfMaxRows)}
          /\ cf_content = <<>>
          /\ cf_index = <<>>
       \/ /\ cf_pc = "given"
          /\ cf_x = <<>>
          /\ cf_index \in GivenIndexes
          /\ cf_content = [k \in 1..Len(cf_index) |-> k]
    /\ cf_counts = <<>>
    /\ cf_out = Unset
    /\ ObjIdle
    /\ MtIdle
    /\ MmIdle
    /\ SdIdle
    /\ TkIdle
    /\ StIdle
    /\ HfIdle
    /\ MpIdle
    /\ UnIdle
    /\ PhIdle
    /\ ItIdle
    /\ RdIdle

ToCfIndexed ==
    /\ cf_pc = "start"
    /\ cf_content' = to_cf_indexed(cf_x)[1]
    /\ cf_index' = to_cf_indexed(cf_x)[2]
    /\ cf_pc' = "indexed"
    /\ UNCHANGED <<cf_x, cf_counts, cf_out>>
    /\ UNCHANGED <<objVars, mtVars, mmVars, sdVars, tkVars, stVars, hfVars, mpVars, unVars, phVars, itVars, rdVars>>

FromCfIndexed ==
    /\ cf_pc \in {"indexed", "given"}
    /\ \E order \in argsort(cf_index) :
          cf_out' = from_cf_indexed(cf_content, cf_index, order)
    /\ cf_pc' = IF cf_pc = "indexed" THEN "done" ELSE "decoded"
    /\ UNCHANGED <<cf_x, cf_content, cf_index, cf_counts>>
    /\ UNCHANGED <<objVars, mtVars, mmVars, sdVars, tkVars, stVars, hfVars, mpVars, unVars, phVars, itVars, rdVars>>

ToCfContiguous ==
    /\ cf_pc = "start"
    /\ cf_content' = to_cf_contiguous(cf_x)[1]
    /\ cf_counts' = to_cf_contiguous(cf_x)[2]
    /\ cf_pc' = "contiguous"
    /\ UNCHANGED <<cf_x, cf_index, cf_out>>
    /\ UNCHANGED <<objVars, mtVars, mmVars, sdVars, tkVars, stVars, hfVars, mpVars, unVars, phVars, itVars, rdVars>>

FromCfContiguous ==
    /\ cf_pc = "contiguous"
    /\ cf_out' = from_cf_contiguous(cf_content, cf_counts)
    /\ cf_pc' = "done_contiguous"
    /\ UNCHANGED <<cf_x, cf_content, cf_index, cf_counts>>
    /\ UNCHANGED <<objVars, mtVars, mmVars, sdVars, tkVars, stVars, hfVars, mpVars, unVars, phVars, itVars, rdVars>>

CfNext == ToCfIndexed \/ FromCfIndexed \/ ToCfContiguous \/ FromCfContiguous

SpecCF == CfInit /\ [][CfNext]_vars

(***************************************************************************)
(* _spec_array_object.py: array handles over shared backing values.        *)
(*                                                                         *)
(* heap is the sequence of backing objects ever created (ak.Array, 0-d     *)
(* numpy.ndarray, 0-d cupy.ndarray); arrs is the sequence of ragged.array  *)
(* handles, each with _impl (an index into heap), _shape, _dtype, _device. *)
(* Two handles share a backing value when their _impl is the same index.   *)
(***************************************************************************)
Devices == {"cpu", "cuda"}
DTypes == {"int64", "float64"}

\* _typing.numeric_types: the dtypes an array may have
numeric_types ==
    {"bool", "int8", "int16", "int32", "int64", "uint8", "uint16", "uint32",
     "uint64", "float32", "float64", "complex64", "complex128"}
NoneArg == "None"

\* a backing object or raw output of the numeric library:
\* lib "ak" (ak.Array), "np" (numpy.ndarray), "cp" (cupy.ndarray),
\* "npnum" (a numpy scalar, np.number), "npbool" (the numpy scalar np.bool_,
\* which is not an np.number), "py" (a Python scalar or list);
\* val is the sequence of its elements (one element when ndim = 0)
RawValue(lib, backend, ndim, dtype, val) ==
    [lib |-> lib, backend |-> backend, ndim |-> ndim, dtype |-> dtype, val |-> val]

\* where a backing value actually lives: ak.backend(impl) for an ak.Array,
\* "cpu" for numpy, "cuda" for cupy
Residency(v) == v.backend

\* _shape_dtype(layout) of a one-dimensional ak.Array; () for a 0-d value
shape_of(v) == IF v.ndim = 0 THEN <<>> ELSE <<Len(v.val)>>

\* np.result_type of two dtypes among int64, float16 and float64
result_type(d1, d2) ==
    IF d1 = d2 THEN d1
    ELSE IF d1 = "float64" \/ d2 = "float64" THEN "float64"
    ELSE IF d1 = "float16" \/ d2 = "float16" THEN "float64"   \* with int64
    ELSE "int64"

\* ak.to_backend / cp.array / .get(): the same value held by the other backend
to_backend(v, device) ==
    IF v.lib = "ak" THEN [v EXCEPT !.backend = device]
    ELSE [v EXCEPT !.lib = IF device = "cuda" THEN "cp" ELSE "np", !.backend = device]

\* ak.values_astype / ndarray.astype: the same value under another dtype
\* an element cast to dtype: bool keeps only whether it is nonzero; the
\* small whole numbers of the model are exact in every other dtype
cast_value(n, dtype) == IF dtype = "bool" THEN (IF n = 0 THEN 0 ELSE 1) ELSE n

\* a nested list of depth d with every element cast to dtype
RECURSIVE cast_cells(_, _, _)
cast_cells(val, d, dtype) ==
    IF d = 0 THEN cast_value(val, dtype)
    ELSE [i \in 1..Len(val) |-> cast_cells(val[i], d - 1, dtype)]

\* (a numpy scalar gives a numpy scalar of the new type)
astype_raw(v, dtype) ==
    [v EXCEPT !.dtype = dtype,
              !.val = [i \in 1..Len(v.val) |-> cast_value(v.val[i], dtype)],
              !.lib = IF v.lib = "npbool" /\ dtype # "bool" THEN "npnum" ELSE v.lib]

\* the result of boxing: the backing value, whether it is the very object
\* that was passed in (same = TRUE) or a new one, and the recorded fields
Boxed(impl, same, shape, dtype, device) ==
    [err |-> "none", impl |-> impl, same |-> same,
     shape |-> shape, dtype |-> dtype, device |-> device]

\* device_observed in _box: ak.backend(output) for an ak.Array, "cpu" for an
\* np.number, and for anything else "cpu" if it is an np.ndarray, else "cuda"
device_observed(output) ==
    IF output.lib = "ak" THEN output.backend
    ELSE IF output.lib \in {"npnum", "np"} THEN "cpu"
    ELSE "cuda"

\* _box(cls, output, dtype=dtype, device=device)
box(output, dtype, device) ==
    LET cast == dtype # NoneArg /\ dtype # output.dtype
        dt == IF cast THEN dtype ELSE output.dtype
        dev == IF device = NoneArg THEN device_observed(output) ELSE device
    IN IF output.lib = "ak"
       THEN \* a requested device only rebinds the local name output; impl stays
            Boxed(IF cast THEN astype_raw(output, dtype) ELSE output,
                  ~cast, shape_of(output), dt, dev)
       ELSE IF output.lib = "npnum"
       THEN \* impl = np.array(output), a new 0-d numpy array
            Boxed(IF cast THEN astype_raw([output EXCEPT !.lib = "np"], dtype)
                          ELSE [output EXCEPT !.lib = "np"],
                  FALSE, <<>>, dt, dev)
       ELSE IF output.lib = "cp" /\ dev = "cpu"
       THEN \* output = np.array(output): numpy refuses a cupy array
            [Boxed(output, FALSE, shape_of(output), dt, dev) EXCEPT !.err = "TypeError"]
       ELSE LET impl == IF cast THEN astype_raw(output, dtype) ELSE output
            IN IF shape_of(output) # <<>>
               THEN Boxed([impl EXCEPT !.lib = "ak"], FALSE, shape_of(output), dt, dev)
               ELSE Boxed(impl, ~cast, <<>>, dt, dev)

\* the objects the constructor accepts besides an existing handle
PyScalars == {1, 2}
PyLists == {<<1, 2>>}
PyObj(kind, raw, h) == [k |-> kind, v |-> raw, h |-> h]
ScalarObjs == {PyObj("scalar", RawValue("py", "cpu", 0, "int64", <<n>>), 0) : n \in PyScalars}
HandleObjs == {PyObj("array", RawValue("py", "cpu", 0, "int64", <<0>>), h) : h \in 1..Len(arrs)}
ForeignObjs ==
    ScalarObjs
    \cup {PyObj("list", RawValue("py", "cpu", 1, "int64", l), 0) : l \in PyLists}
    \cup {PyObj("ak", RawValue("ak", b, 1, "int64", <<1>>), 0) : b \in Devices}
    \cup {PyObj("dlpack", RawValue(IF b = "cpu" THEN "np" ELSE "cp", b, 0, "int64", <<1>>), 0)
            : b \in Devices}

\* array.__init__, lines 167-198: the backing value and the shape and dtype
\* first recorded for obj; src is the heap index of a shared backing value,
\* 0 for a new object
init_base(obj) ==
    IF obj.k = "array"
    THEN [impl |-> heap[arrs[obj.h].impl], src |-> arrs[obj.h].impl,
          shape |-> arrs[obj.h].shape, dtype |-> arrs[obj.h].dtype]
    ELSE IF obj.k = "ak" \/ obj.k = "dlpack"
    THEN [impl |-> obj.v, src |-> 0, shape |-> shape_of(obj.v), dtype |-> obj.v.dtype]
    ELSE IF obj.k = "scalar"
    THEN [impl |-> RawValue("np", "cpu", 0, "int64", obj.v.val), src |-> 0,
          shape |-> <<>>, dtype |-> "int64"]
    ELSE [impl |-> RawValue("ak", "cpu", 1, "int64", obj.v.val), src |-> 0,
          shape |-> <<Len(obj.v.val)>>, dtype |-> "int64"]

\* array.__init__, lines 200-209: the requested dtype
init_dtype(st, obj, dtype) ==
    IF dtype # NoneArg /\ dtype # st.dtype
    THEN IF st.impl.lib = "ak"
         THEN [st EXCEPT !.impl = astype_raw(st.impl, dtype), !.src = 0, !.dtype = dtype]
         ELSE \* np.array(obj, dtype=dtype): always a numpy array
              [st EXCEPT !.impl = astype_raw(to_backend(st.impl, "cpu"), dtype),
                         !.src = 0, !.dtype = dtype]
    ELSE st

\* array.__init__, lines 223-236: the requested device
init_device(st, device) ==
    IF device # NoneArg
    THEN IF st.impl.lib = "ak" /\ device # st.impl.backend
         THEN [impl |-> to_backend(st.impl, device), src |-> 0, shape |-> st.shape,
               dtype |-> st.dtype, device |-> device]
         ELSE IF st.impl.lib = "np" /\ device = "cuda"
         THEN [impl |-> to_backend(st.impl, "cuda"), src |-> 0, shape |-> st.shape,
               dtype |-> st.dtype, device |-> device]
         ELSE [impl |-> st.impl, src |-> st.src, shape |-> st.shape,
               dtype |-> st.dtype, device |-> device]
    ELSE [impl |-> st.impl, src |-> st.src, shape |-> st.shape, dtype |-> st.dtype,
          device |-> IF st.impl.lib = "ak" THEN st.impl.backend
                     ELSE IF st.impl.lib = "np" THEN "cpu" ELSE "cuda"]

\* array.__init__, lines 238-239: copy=True deep-copies an ak.Array
init_copy(st, copy) ==
    IF copy /\ st.impl.lib = "ak" THEN [st EXCEPT !.src = 0] ELSE st

\* np.array(obj, dtype=dtype) refuses a cupy object (no implicit conversion)
\* and lines 211-221 refuse a dtype outside numeric_types: TypeError
init_raises(obj, dtype) ==
    \/ /\ obj.k = "dlpack"
       /\ obj.v.lib = "cp"
       /\ dtype # NoneArg
       /\ dtype # obj.v.dtype
    \/ init_dtype(init_base(obj), obj, dtype).dtype \notin numeric_types

array_init(obj, dtype, device, copy) ==
    init_copy(init_device(init_dtype(init_base(obj), obj, dtype), device), copy)

\* to_device takes what is neither an ak.Array nor an np.ndarray for a cupy
\* array: a numpy scalar has no get() (AttributeError)
to_device_raises(h, device) ==
    /\ heap[arrs[h].impl].lib \in {"npnum", "npbool"}
    /\ device = "cpu"

\* array.to_device(device) without a stream: the new backing value and whether
\* it is the object self._impl itself
to_device(h, device) ==
    LET impl == heap[arrs[h].impl]
        moved == IF impl.lib = "ak" THEN device # impl.backend
                 ELSE IF impl.lib = "np" THEN device = "cuda"
                 ELSE impl.lib = "cp" /\ device = "cpu"
    IN [impl |-> IF moved THEN to_backend(impl, device) ELSE impl,
        src |-> IF moved THEN 0 ELSE arrs[h].impl,
        shape |-> arrs[h].shape, dtype |-> arrs[h].dtype, device |-> device]

(***************************************************************************)
(* Element-wise binary operators and their in-place forms.                 *)
(***************************************************************************)
\* the operators with an in-place and a reflected form (matmul apart):
\* __add__, __sub__, __mul__, __truediv__, __floordiv__, __pow__, __mod__,
\* __and__, __or__, __xor__, __lshift__, __rshift__
BinOps == {"add", "sub", "mul", "truediv", "floordiv", "pow", "mod",
           "and", "or", "xor", "lshift", "rshift"}

\* the operators numpy defines for integers and booleans only
BitOps == {"and", "or", "xor", "lshift", "rshift"}

\* the operators that divide by their second operand
DivOps == {"truediv", "floordiv", "mod"}

RECURSIVE power(_, _)
power(a, n) == IF n = 0 THEN 1 ELSE a * power(a, n - 1)

\* np.bitwise_and / np.bitwise_or / np.bitwise_xor on two naturals, bit by bit
RECURSIVE bitwise(_, _, _)
bitwise(op, a, b) ==
    IF a = 0 /\ b = 0 THEN 0
    ELSE LET x == a % 2
             y == b % 2
             bit == IF op = "and" THEN (IF x = 1 /\ y = 1 THEN 1 ELSE 0)
                    ELSE IF op = "or" THEN (IF x = 1 \/ y = 1 THEN 1 ELSE 0)
                    ELSE (IF x # y THEN 1 ELSE 0)
         IN  bit + 2 * bitwise(op, a \div 2, b \div 2)

\* the element the numpy function of op gives for the naturals a and b; an
\* integer divided or reduced by zero gives 0 (with a warning)
scalar_op(op, a, b) ==
    IF op = "add" THEN a + b
    ELSE IF op = "sub" THEN a - b
    ELSE IF op = "mul" THEN a * b
    ELSE IF op \in {"truediv", "floordiv"} THEN (IF b = 0 THEN 0 ELSE a \div b)
    ELSE IF op = "mod" THEN (IF b = 0 THEN 0 ELSE a % b)
    ELSE IF op = "pow" THEN power(a, b)
    ELSE IF op = "lshift" THEN a * power(2, b)
    ELSE IF op = "rshift" THEN a \div power(2, b)
    ELSE bitwise(op, a, b)

\* the dtype of the result: np.divide gives float64 for integers
ufunc_dtype(op, d1, d2) ==
    IF op = "truediv" /\ result_type(d1, d2) = "int64" THEN "float64"
    ELSE result_type(d1, d2)

\* the pairs of elements an operator combines (broadcasting a 0-d operand
\* against a one-dimensional one)
operand_pairs(x1, x2) ==
    IF x1.ndim = 0 /\ x2.ndim = 0 THEN <<<<x1.val[1], x2.val[1]>>>>
    ELSE IF x1.ndim = 0 THEN [i \in 1..Len(x2.val) |-> <<x1.val[1], x2.val[i]>>]
    ELSE IF x2.ndim = 0 THEN [i \in 1..Len(x1.val) |-> <<x1.val[i], x2.val[1]>>]
    ELSE [i \in 1..Len(x1.val) |-> <<x1.val[i], x2.val[i]>>]

\* np.add, np.subtract, np.multiply, np.divide, ... on two unboxed values
ufunc(op, x1, x2) ==
    LET dt == ufunc_dtype(op, x1.dtype, x2.dtype)
        pairs == operand_pairs(x1, x2)
        val == [i \in 1..Len(pairs) |-> scalar_op(op, pairs[i][1], pairs[i][2])]
    IN IF x1.ndim = 0 /\ x2.ndim = 0
       THEN RawValue(IF x1.lib = "cp" THEN "cp" ELSE "npnum", x1.backend, 0, dt, val)
       ELSE IF x1.ndim = 0
       THEN RawValue("ak", x2.backend, 1, dt, val)
       ELSE RawValue("ak", x1.backend, 1, dt, val)

\* the bitwise and shift functions refuse a floating-point operand (TypeError)
ufunc_raises(op, x1, x2) ==
    op \in BitOps /\ (x1.dtype # "int64" \/ x2.dtype # "int64")

\* the results the whole numbers of the model cannot hold: a fraction, and
\* the infinity or NaN of a floating-point division by zero
inexact(op, x1, x2) ==
    LET pairs == operand_pairs(x1, x2)
    IN  \E i \in 1..Len(pairs) :
            LET a == pairs[i][1]
                b == pairs[i][2]
            IN  \/ op = "truediv" /\ (b = 0 \/ a % b # 0)
                \/ op \in {"floordiv", "mod"} /\ b = 0
                      /\ ufunc_dtype(op, x1.dtype, x2.dtype) # "int64"

\* the second operand of array.__add__ etc.: an array handle is used as it is,
\* anything else is wrapped by array(other, device=self._device)
other_value(h, other) ==
    IF other.k = "array" THEN heap[arrs[other.h].impl]
    ELSE array_init(other, NoneArg, arrs[h].device, FALSE).impl

\* array.__add__, __sub__, ... : ns.add(self, other), ns.subtract(self, other), ... boxed
binary_method(op, h, other) ==
    box(ufunc(op, heap[arrs[h].impl], other_value(h, other)), NoneArg, NoneArg)

\* the operands the model lets an operator see: backing values on one device
\* (the code has a FIXME for mixed devices), shapes that broadcast, and
\* results inside the value range of the model
ValCap == 4

InRange(v) == \A i \in 1..Len(v.val) : v.val[i] \in 0..ValCap

Operable(op, h, other) ==
    LET x1 == heap[arrs[h].impl]
        x2 == other_value(h, other)
    IN /\ Residency(x1) = Residency(x2)
       /\ x1.dtype # "bool" /\ x2.dtype # "bool"
       /\ (x1.ndim = 1 /\ x2.ndim = 1) => Len(x1.val) = Len(x2.val)
       /\ ~ufunc_raises(op, x1, x2)
       /\ ~inexact(op, x1, x2)
       /\ InRange(ufunc(op, x1, x2))

\* the four assignments of an in-place operator: the handle is rebound to the
\* backing value of out and its shape and dtype are re-derived from it
inplace_rebind_shared(h, out) ==
    [heap |-> [heap EXCEPT ![arrs[h].impl] = out.impl],
     arrs |-> [arrs EXCEPT ![h] = [impl |-> arrs[h].impl, shape |-> shape_of(out.impl),
                                   dtype |-> out.impl.dtype, device |-> out.device]]]

inplace_rebind(h, out) ==
    [heap |-> Append(heap, out.impl),
     arrs |-> [arrs EXCEPT ![h] = [impl |-> Len(heap) + 1, shape |-> shape_of(out.impl),
                                   dtype |-> out.impl.dtype, device |-> out.device]]]

(***************************************************************************)
(* The operations on array handles.                                        *)
(***************************************************************************)
\* the operations applied in one run, and how many of them are in place;
\* the others make one handle each
MaxOps == 3
MaxInPlace == 1
MaxArrays == MaxOps - MaxInPlace

Handles == 1..Len(arrs)

DTypeArgs == DTypes \cup {NoneArg}
DeviceArgs == Devices \cup {NoneArg}

\* a new handle over st.impl: over the shared object when st.src names one
NewHandle(st, opname) ==
    /\ heap' = IF st.src = 0 THEN Append(heap, st.impl) ELSE heap
    /\ arrs' = Append(arrs, [impl |-> IF st.src = 0 THEN Len(heap) + 1 ELSE st.src,
                              shape |-> st.shape, dtype |-> st.dtype,
                              device |-> st.device])
    /\ last' = [op |-> opname, target |-> Len(arrs) + 1, other |-> NoOther,
                self |-> 0, arg |-> "None", n |-> last.n + 1,
                ip |-> last.ip, shared |-> FALSE]

\* array(obj, dtype=, device=, copy=)
Construct ==
    /\ Len(arrs) < MaxArrays
    /\ last.n < MaxOps
    /\ \E obj \in ForeignObjs \cup HandleObjs,
          dtype \in DTypeArgs \cup {"float16"}, device \in DeviceArgs,
          copy \in BOOLEAN :
          /\ ~init_raises(obj, dtype)
          /\ (obj.k = "array" /\ arrs[obj.h].shape = <<>>)
                => dtype \in {NoneArg, arrs[obj.h].dtype}
          /\ NewHandle(array_init(obj, dtype, device, copy), "array")
    /\ UNCHANGED <<cfVars, mtVars, mmVars, sdVars, tkVars, stVars, hfVars, mpVars, unVars, phVars, itVars, rdVars>>

\* x.to_device(device)
ToDevice ==
    /\ Len(arrs) < MaxArrays
    /\ last.n < MaxOps
    /\ \E h \in Handles, device \in Devices :
          /\ ~to_device_raises(h, device)
          /\ NewHandle(to_device(h, device), "to_device")
    /\ UNCHANGED <<cfVars, mtVars, mmVars, sdVars, tkVars, stVars, hfVars, mpVars, unVars, phVars, itVars, rdVars>>

\* a function of the library boxing a raw result of the numeric library
\* with an explicit dtype and device, as zeros_like / ones_like / full_like
\* and astype do
RawOutputs ==
    {RawValue("ak", b, 1, "int64", <<1, 2>>) : b \in Devices}
    \cup {RawValue("npnum", "cpu", 0, "int64", <<1>>),
          RawValue("np", "cpu", 0, "int64", <<1>>),
          RawValue("cp", "cuda", 0, "int64", <<1>>),
          RawValue("np", "cpu", 1, "int64", <<1, 2>>),
          RawValue("npbool", "cpu", 0, "bool", <<1>>)}

Box ==
    /\ Len(arrs) < MaxArrays
    /\ last.n < MaxOps
    /\ \E output \in RawOutputs, dtype \in DTypeArgs, device \in DeviceArgs :
          LET b == box(output, dtype, device)
          IN /\ b.err = "none"
             /\ NewHandle([impl |-> b.impl, src |-> 0, shape |-> b.shape,
                           dtype |-> b.dtype, device |-> b.device], "_box")
    /\ UNCHANGED <<cfVars, mtVars, mmVars, sdVars, tkVars, stVars, hfVars, mpVars, unVars, phVars, itVars, rdVars>>

\* the dtypes astype is asked for: supported ones, and float16, which numpy
\* knows and numeric_types does not hold
AstypeDTypes == {"bool", "int64", "float64", "float16"}

\* astype(x, dtype): _box(type(x), x._impl, dtype=dtype)
astype(h, dtype) == box(heap[arrs[h].impl], dtype, NoneArg)

Astype ==
    /\ Len(arrs) < MaxArrays
    /\ last.n < MaxOps
    /\ \E h \in Handles, dtype \in AstypeDTypes :
          LET b == astype(h, dtype)
          IN /\ heap' = IF b.same THEN heap ELSE Append(heap, b.impl)
             /\ arrs' = Append(arrs, [impl |-> IF b.same THEN arrs[h].impl
                                                ELSE Len(heap) + 1,
                                       shape |-> b.shape, dtype |-> b.dtype,
                                       device |-> b.device])
             /\ last' = [op |-> "astype", target |-> Len(arrs) + 1,
                          other |-> PyObj("array", RawValue("py", "cpu", 0, "int64", <<0>>), h),
                          self |-> 0, arg |-> dtype, n |-> last.n + 1,
                ip |-> last.ip, shared |-> FALSE]
    /\ UNCHANGED <<cfVars, mtVars, mmVars, sdVars, tkVars, stVars, hfVars, mpVars, unVars, phVars, itVars, rdVars>>

\* x += other, x -= other, x *= other, x /= other, x //= other, x **= other,
\* x %= other, x &= other, x |= other, x ^= other, x <<= other, x >>= other
InPlace ==
    /\ last.n < MaxOps
    /\ last.ip < MaxInPlace
    /\ \E h \in Handles, op \in BinOps,
          other \in ScalarObjs \cup HandleObjs :
          /\ Operable(op, h, other)
          /\ LET r == inplace_rebind(h, binary_method(op, h, other))
             IN /\ heap' = r.heap
                /\ arrs' = r.arrs
          /\ last' = [op |-> op, target |-> h, other |-> other, self |-> 0, arg |-> "None",
                       n |-> last.n + 1, ip |-> last.ip + 1,
                       shared |-> \E g \in Handles \ {h} : arrs[g].impl = arrs[h].impl]
    /\ UNCHANGED <<cfVars, mtVars, mmVars, sdVars, tkVars, stVars, hfVars, mpVars, unVars, phVars, itVars, rdVars>>

\* k - x, k + x, k * x, k / x, ... for a Python scalar k: Python calls the
\* reflected method of x, and __rsub__ = __sub__ (likewise every other
\* reflected operator), so the method applied is x.__sub__(k)
reflected_method(op, h, other) == binary_method(op, h, other)

Reflected ==
    /\ Len(arrs) < MaxArrays
    /\ last.n < MaxOps
    /\ \E h \in Handles, op \in BinOps, other \in ScalarObjs :
          /\ Operable(op, h, other)
          /\ LET b == reflected_method(op, h, other)
             IN /\ heap' = Append(heap, b.impl)
                /\ arrs' = Append(arrs, [impl |-> Len(heap) + 1, shape |-> b.shape,
                                          dtype |-> b.dtype, device |-> b.device])
          /\ last' = [op |-> "reflected_" \o op, target |-> Len(arrs) + 1,
                       other |-> other, self |-> h, arg |-> "None",
                       n |-> last.n + 1,
                ip |-> last.ip, shared |-> FALSE]
    /\ UNCHANGED <<cfVars, mtVars, mmVars, sdVars, tkVars, stVars, hfVars, mpVars, unVars, phVars, itVars, rdVars>>

ObjInit ==
    /\ heap = <<>>
    /\ arrs = <<>>
    /\ last = [op |-> "none", target |-> 0, other |-> NoOther, self |-> 0, arg |-> "None",
               n |-> 0, ip |-> 0, shared |-> FALSE]
    /\ CfIdle
    /\ MtIdle
    /\ MmIdle
    /\ SdIdle
    /\ TkIdle
    /\ StIdle
    /\ HfIdle
    /\ MpIdle
    /\ UnIdle
    /\ PhIdle
    /\ ItIdle
    /\ RdIdle

ObjNext == Construct \/ ToDevice \/ Box \/ Astype \/ InPlace \/ Reflected

SpecObj == ObjInit /\ [][ObjNext]_vars

(***************************************************************************)
(* _helper_functions.py and _spec_linear_algebra_functions.py:             *)
(* is_sorted_descending_all_levels and matrix_transpose.                   *)
(*                                                                         *)
(* An input array is [ndim, dtype, kinds, val]: val is the nested list     *)
(* ak.to_list gives, kinds[j] tells whether the lists at nesting level j   *)
(* are held by a variable-length node (ListOffsetArray / ListArray,        *)
(* "list") or by a fixed-size node (RegularArray, "regular").              *)
(***************************************************************************)
MtDTypes == {"bool", "int32", "int64", "float32", "float64", "complex128"}

\* ak.to_list turns an element into a Python bool, int, float or complex
py_type(dtype) ==
    IF dtype = "bool" THEN "bool"
    ELSE IF dtype = "complex128" THEN "complex"
    ELSE IF dtype \in {"float32", "float64"} THEN "float"
    ELSE "int"

\* isinstance(v, (int, float)) for a Python number of the given type
is_int_or_float(pytype) == pytype \in {"bool", "int", "float"}

\* the dtype ak.Array infers for a Python list of numbers of the given type
inferred_dtype(pytype) ==
    IF pytype = "bool" THEN "bool"
    ELSE IF pytype = "complex" THEN "complex128"
    ELSE IF pytype = "float" THEN "float64"
    ELSE "int64"

\* the lengths of the lists at nesting level j of a depth-d nested list, in
\* flattened order (ak.num(node, axis=1) of the layout node of that level)
RECURSIVE level_lengths(_, _)
level_lengths(val, j) ==
    IF j = 1 THEN [i \in 1..Len(val) |-> Len(val[i])]
    ELSE level_lengths(ConcatAll(val), j - 1)

\* ak.all(lengths[:-1] >= lengths[1:])
non_increasing(lengths) ==
    \A i \in 1..(Len(lengths) - 1) : lengths[i] >= lengths[i + 1]

\* check(node) of is_sorted_descending_all_levels, node being the layout node
\* of nesting level j
RECURSIVE check(_, _)
check(x, j) ==
    IF j <= x.ndim - 1 /\ x.kinds[j] = "list"
    THEN IF ~non_increasing(level_lengths(x.val, j)) THEN FALSE
         ELSE check(x, j + 1)
    ELSE TRUE

\* ak.Array(x._impl) refuses the zero-dimensional buffer of a scalar
\* (TypeError) before check runs
is_sorted_descending_all_levels(x) ==
    IF x.ndim = 0 THEN Raise("TypeError") ELSE Ok(check(x, 1))

\* [row[i] for row in mat if i < len(row)], i counted from 1 here
RECURSIVE column(_, _)
column(mat, i) ==
    IF mat = <<>> THEN <<>>
    ELSE (IF i <= Len(Head(mat)) THEN <<Head(mat)[i]>> ELSE <<>>)
         \o column(Tail(mat), i)

\* max((len(row) for row in mat), default=0)
max_cols_of(mat) ==
    IF mat = <<>> THEN 0 ELSE MaxSeq([r \in 1..Len(mat) |-> Len(mat[r])])

\* transpose_matrix(mat)
transpose_matrix(mat) == [i \in 1..max_cols_of(mat) |-> column(mat, i)]

\* is_matrix_level(b) for a list b of nesting depth d holding Python numbers
\* of type pytype
is_matrix_level(b, d, pytype) ==
    \E r \in 1..Len(b) : d = 2 /\ b[r] # <<>> /\ is_int_or_float(pytype)

\* recurse(batch) for a list of nesting depth d
RECURSIVE recurse(_, _, _)
recurse(batch, d, pytype) ==
    IF d >= 2 \/ batch = <<>>
    THEN IF is_matrix_level(batch, d, pytype)
         THEN transpose_matrix(batch)
         ELSE [i \in 1..Len(batch) |-> recurse(batch[i], d - 1, pytype)]
    ELSE batch

\* the number of dimensions ak.Array infers for a Python list known to have
\* at most d levels: an empty list shows no deeper level
RECURSIVE py_ndim(_, _)
py_ndim(val, d) ==
    IF d = 1 \/ val = <<>> THEN 1
    ELSE 1 + MaxSeq([i \in 1..Len(val) |-> py_ndim(val[i], d - 1)])

\* whether a Python list of depth d holds any number at all
RECURSIVE has_elements(_, _)
has_elements(val, d) ==
    IF d = 1 THEN val # <<>>
    ELSE \E i \in 1..Len(val) : has_elements(val[i], d - 1)

\* array(pylist): the array the constructor builds from a nested Python list
\* of depth d with numbers of type pytype (an empty buffer is float64)
array_of_list(val, d, pytype) ==
    [err |-> "none", ndim |-> py_ndim(val, d),
     dtype |-> IF has_elements(val, d) THEN inferred_dtype(pytype) ELSE "float64",
     val |-> val]

RaiseArr(e) == [err |-> e, ndim |-> 0, dtype |-> "none", val |-> <<>>]

\* matrix_transpose(x)
matrix_transpose(x) ==
    IF x.ndim < 2 THEN RaiseArr("ValueError")
    ELSE IF ~is_sorted_descending_all_levels(x).val THEN RaiseArr("ValueError")
    ELSE array_of_list(recurse(x.val, x.ndim, py_type(x.dtype)), x.ndim,
                       py_type(x.dtype))

\* the shapes of the stacks of up to n matrices
Stacks(n) == SeqsUpTo(RowLengths(MaxRows), n)

LabelledStack(shape) ==
    LET flat == Labelled(ConcatAll(shape))
    IN ak_unflatten(flat, [i \in 1..Len(shape) |-> Len(shape[i])])

\* a fixed-size node can hold the lists of a level only if they are equally long
all_equal(lengths) == \A i, k \in 1..Len(lengths) : lengths[i] = lengths[k]

KindsFor(val, ndim) ==
    {ks \in [1..(ndim - 1) -> {"list", "regular"}] :
        \A j \in 1..(ndim - 1) :
            ks[j] = "regular" => all_equal(level_lengths(val, j))}

\* an array of the given dtype over the cells val: a bool array holds only
\* False and True (0 and 1)
InputArray(ndim, dtype, kinds, val) ==
    [ndim |-> ndim, dtype |-> dtype, kinds |-> kinds, val |-> cast_cells(val, ndim, dtype)]

\* the inputs of rank ndim: one-dimensional arrays, matrices, and stacks of
\* up to two matrices, of every dtype and with every layout that can hold them
MtInputs(ndim) ==
    IF ndim = 1
    THEN {InputArray(1, dt, <<>>, [k \in 1..n |-> k]) : dt \in MtDTypes, n \in 0..MaxLen}
    ELSE IF ndim = 2
    THEN UNION {{InputArray(2, dt, ks, Labelled(lens)) : ks \in KindsFor(Labelled(lens), 2)}
                  : dt \in MtDTypes, lens \in RowLengths(MaxRows)}
    ELSE UNION {{InputArray(3, dt, ks, LabelledStack(sh)) : ks \in KindsFor(LabelledStack(sh), 3)}
                  : dt \in MtDTypes, sh \in Stacks(2)}

MtInit ==
    /\ mt_pc = "start"
    /\ \E ndim \in 1..3 : mt_x \in MtInputs(ndim)
    /\ mt_out = Unset
    /\ mt_twice = Unset
    /\ CfIdle
    /\ ObjIdle
    /\ MmIdle
    /\ SdIdle
    /\ TkIdle
    /\ StIdle
    /\ HfIdle
    /\ MpIdle
    /\ UnIdle
    /\ PhIdle
    /\ ItIdle
    /\ RdIdle

MatrixTranspose ==
    /\ mt_pc = "start"
    /\ mt_out' = matrix_transpose(mt_x)
    /\ mt_pc' = "done"
    /\ UNCHANGED <<mt_x, mt_twice, cfVars, objVars, mmVars, sdVars, tkVars, stVars, hfVars, mpVars, unVars, phVars, itVars, rdVars>>

\* the array returned by array(transposed), taken as an input: ak.Array
\* builds variable-length lists at every level of a Python list
returned_array(out) ==
    [ndim |-> out.ndim, dtype |-> out.dtype,
     kinds |-> [j \in 1..(out.ndim - 1) |-> "list"], val |-> out.val]

\* matrix_transpose(matrix_transpose(x)): the second call, on what the first
\* one returned
MatrixTransposeAgain ==
    /\ mt_pc = "done"
    /\ mt_out.err = "none"
    /\ mt_twice' = matrix_transpose(returned_array(mt_out))
    /\ mt_pc' = "twice"
    /\ UNCHANGED <<mt_x, mt_out, cfVars, objVars, mmVars, sdVars, tkVars, stVars, hfVars, mpVars, unVars, phVars, itVars, rdVars>>

MtNext == MatrixTranspose \/ MatrixTransposeAgain

SpecMT == MtInit /\ [][MtNext]_vars

(***************************************************************************)
(* _spec_linear_algebra_functions.py: matmul.                              *)
(*                                                                         *)
(* An operand is [ndim, val]; a zero-dimensional operand holds its one     *)
(* number in val.  A result is [err, ndim, dtype, val].                    *)
(***************************************************************************)
\* safe_max_num(rows, axis=-1): the largest row length, 0 when there is none
safe_max_num(rows) == max_cols_of(rows)

\* mat_a[r, c] after the zero-initialised (M, K) buffer took the rows of a
padded_a(a, r, k) == IF k <= Len(a[r]) THEN a[r][k] ELSE 0

\* mat_b[k, c] after the zero-initialised (K, N) buffer took the first
\* min(len(b), K) rows of b
padded_b(b, K, k, c) ==
    IF k <= Len(b) /\ k <= K /\ c <= Len(b[k]) THEN b[k][c] ELSE 0

\* (mat_a @ mat_b)[r, c]
product_entry(a, b, K, r, c) ==
    SumSeq([k \in 1..K |-> padded_a(a, r, k) * padded_b(b, K, k, c)])

\* a variant that takes the width of b for its height
eff_rows_b_by_columns(b) == safe_max_num(b)

\* the rows of b that count for the contraction: none when all are empty
eff_rows_b(b) == IF \A r \in 1..Len(b) : Len(b[r]) = 0 THEN 0 ELSE Len(b)

\* _matmul_2d(a_impl, b_impl)
matmul_2d(a, b) ==
    IF Len(a) = 0 \/ Len(b) = 0 THEN Ok(<<>>)
    ELSE LET max_cols_a == safe_max_num(a)
             max_cols_b == safe_max_num(b)
         IN IF max_cols_a # eff_rows_b(b)
               /\ ~(max_cols_a = 0 /\ eff_rows_b(b) = 0)
            THEN Raise("ValueError")
            ELSE Ok([r \in 1..Len(a) |->
                        IF Len(a[r]) = 0 THEN <<>>
                        ELSE [c \in 1..max_cols_b |->
                                 product_entry(a, b, max_cols_a, r, c)]])

Operand(ndim, val) == [ndim |-> ndim, val |-> val]

\* array(v) for a whole number or a flat list of whole numbers: an empty list
\* gives float64, as in array_of_list
ArrOk(ndim, val) ==
    [err |-> "none", ndim |-> ndim,
     dtype |-> IF ndim >= 1 /\ val = <<>> THEN "float64" ELSE "int64", val |-> val]

\* the "both <= 2D" branch for two two-dimensional operands
collapse_1x1(x1, x2) == Len(x1.val) = 1 /\ safe_max_num(x2.val) = 1

matmul_both_2d(x1, x2) ==
    LET out2d == matmul_2d(x1.val, x2.val)
    IN IF out2d.err # "none" THEN RaiseArr(out2d.err)
       ELSE IF collapse_1x1(x1, x2)
       THEN ArrOk(1, <<out2d.val[1][1]>>)
       ELSE array_of_list(out2d.val, 2, "int")

\* _promote_1d_to_2d(array(b)) for a batch b taken from an operand: a list
\* that shows fewer than two levels becomes the only row
promote_batch(b, d) == IF py_ndim(b, d) = 1 THEN <<b>> ELSE b

\* _batches(xt)
batches(x) == IF x.ndim <= 2 THEN <<x.val>> ELSE x.val

\* the depth of the lists _batches returns for x
batch_depth(x) == IF x.ndim = 1 THEN 1 ELSE 2

broadcast_mismatch(B1, B2) == (B1 # B2 /\ B1 # 1) /\ (B2 # B1 /\ B2 # 1)

\* the index of the batch of an operand with B batches used for result i
\* (i counted from 1, Python's i % B counted from 0)
batch_index(i, B) == ((i - 1) % B) + 1

\* the pairs (a_impl, b_impl) matmul hands to _matmul_2d
block_pairs(x1, x2) ==
    IF x1.ndim = 0 \/ x2.ndim = 0 THEN <<>>
    ELSE IF x1.ndim = 1 /\ x2.ndim = 1 THEN <<>>
    ELSE IF x1.ndim = 1 /\ x2.ndim = 2 THEN <<[a |-> <<x1.val>>, b |-> x2.val]>>
    ELSE IF x1.ndim = 2 /\ x2.ndim = 1
    THEN IF x2.val = <<>> THEN <<>>
         ELSE <<[a |-> x1.val, b |-> [k \in 1..Len(x2.val) |-> <<x2.val[k]>>]]>>
    ELSE IF x1.ndim = 2 /\ x2.ndim = 2 THEN <<[a |-> x1.val, b |-> x2.val]>>
    ELSE LET B1 == Len(batches(x1))
             B2 == Len(batches(x2))
             n == IF B1 > B2 THEN B1 ELSE B2
             pair(i) ==
                 [a |-> promote_batch(batches(x1)[batch_index(i, B1)], batch_depth(x1)),
                  b |-> promote_batch(batches(x2)[batch_index(i, B2)], batch_depth(x2))]
             \* the loop ends at the first call that raises
             raising == {i \in 1..n : matmul_2d(pair(i).a, pair(i).b).err # "none"}
             made == IF raising = {} THEN n
                     ELSE CHOOSE i \in raising : \A j \in raising : i <= j
         IN IF broadcast_mismatch(B1, B2) \/ B1 = 0 \/ B2 = 0 THEN <<>>
            ELSE [i \in 1..made |-> pair(i)]

\* the batch branch (either operand has more than two dimensions)
matmul_batch(x1, x2) ==
    LET B1 == Len(batches(x1))
        B2 == Len(batches(x2))
        pairs == block_pairs(x1, x2)
        results == [i \in 1..Len(pairs) |-> matmul_2d(pairs[i].a, pairs[i].b)]
    IN IF broadcast_mismatch(B1, B2) THEN RaiseArr("ValueError")
       ELSE IF B1 = 0 /\ B2 = 0 THEN array_of_list(<<>>, 3, "int")
       ELSE IF B1 = 0 \/ B2 = 0 THEN RaiseArr("ZeroDivisionError")   \* i % 0
       ELSE IF \E i \in 1..Len(results) : results[i].err # "none"
       THEN RaiseArr("ValueError")
       ELSE array_of_list([i \in 1..Len(results) |-> results[i].val], 3, "int")

\* matmul(x1, x2)
matmul(x1, x2) ==
    IF x1.ndim = 0 \/ x2.ndim = 0 THEN RaiseArr("ValueError")
    ELSE IF x1.ndim = 1 /\ x2.ndim = 1
    THEN IF Len(x1.val) # Len(x2.val) THEN RaiseArr("ValueError")
         ELSE ArrOk(0, <<SumSeq([k \in 1..Len(x1.val) |-> x1.val[k] * x2.val[k]])>>)
    ELSE IF x1.ndim = 1 /\ x2.ndim = 2
    THEN LET res2d == matmul_both_2d(Operand(2, <<x1.val>>), x2)
         IN IF res2d.err # "none" THEN res2d
            ELSE IF Len(res2d.val) = 0 THEN RaiseArr("IndexError")   \* res2d[0]
            ELSE IF res2d.ndim = 2 THEN ArrOk(1, res2d.val[1])
            ELSE ArrOk(0, <<res2d.val[1]>>)
    ELSE IF x1.ndim = 2 /\ x2.ndim = 1
    THEN IF x2.val = <<>>
         THEN \* array([]) is one-dimensional again: matmul calls itself for ever
              RaiseArr("RecursionError")
         ELSE LET res2d == matmul_both_2d(x1, Operand(2, [k \in 1..Len(x2.val) |-> <<x2.val[k]>>]))
              IN IF res2d.err # "none" THEN res2d
                 ELSE IF res2d.ndim = 2
                 THEN IF \E r \in 1..Len(res2d.val) : res2d.val[r] = <<>>
                      THEN RaiseArr("IndexError")                    \* row[0]
                      ELSE ArrOk(1, [r \in 1..Len(res2d.val) |-> res2d.val[r][1]])
                 ELSE ArrOk(1, res2d.val)
    ELSE IF x1.ndim = 2 /\ x2.ndim = 2 THEN matmul_both_2d(x1, x2)
    ELSE matmul_batch(x1, x2)

\* the shapes of the matrices stacked in a three-dimensional operand
StackMatShapes == {<<>>, <<0>>, <<1>>, <<1, 1>>}

MmInputs(ndim) ==
    IF ndim = 0 THEN {Operand(0, <<1>>)}
    ELSE IF ndim = 1 THEN {Operand(1, [k \in 1..n |-> k]) : n \in 0..MaxLen}
    ELSE IF ndim = 2 THEN {Operand(2, Labelled(lens)) : lens \in RowLengths(MaxRows)}
    ELSE {Operand(3, LabelledStack(sh)) : sh \in SeqsUpTo(StackMatShapes, MaxBatch)}

MmInit ==
    /\ mm_pc = "start"
    /\ \E r1, r2 \in 0..3 :
          /\ mm_x1 \in MmInputs(r1)
          /\ mm_x2 \in MmInputs(r2)
    /\ mm_calls = <<>>
    /\ mm_out = Unset
    /\ CfIdle
    /\ ObjIdle
    /\ MtIdle
    /\ SdIdle
    /\ TkIdle
    /\ StIdle
    /\ HfIdle
    /\ MpIdle
    /\ UnIdle
    /\ PhIdle
    /\ ItIdle
    /\ RdIdle

Matmul ==
    /\ mm_pc = "start"
    /\ mm_out' = matmul(mm_x1, mm_x2)
    /\ mm_calls' = [i \in 1..Len(block_pairs(mm_x1, mm_x2)) |->
                      LET p == block_pairs(mm_x1, mm_x2)[i]
                      IN [a |-> p.a, b |-> p.b, out |-> matmul_2d(p.a, p.b)]]
    /\ mm_pc' = "done"
    /\ UNCHANGED <<mm_x1, mm_x2, cfVars, objVars, mtVars, sdVars, tkVars, stVars, hfVars, mpVars, unVars, phVars, itVars, rdVars>>

MmNext == Matmul

SpecMM == MmInit /\ [][MmNext]_vars

(***************************************************************************)
(* _spec_array_object.py: _shape_dtype, the shape and dtype read off an    *)
(* Awkward layout.  A layout is its outer length and the chain of its      *)
(* nodes from the outermost one to the innermost one; every node but the   *)
(* last has a content.                                                     *)
(***************************************************************************)
MaxDepth == 2
MaxSize == 2
MaxInner == 1

\* one entry of a shape: an integer or None
Dim(k) == [none |-> FALSE, n |-> k]
NoneDim == [none |-> TRUE, n |-> 0]

ListKinds == {"ListArray", "ListOffsetArray"}
ListLikeKinds == ListKinds \cup {"RegularArray"}

Node(kind, size, dtype, inner) ==
    [kind |-> kind, size |-> size, dtype |-> dtype, inner |-> inner]

\* the shape entries appended by the while loop, and the node it stops at
RECURSIVE shape_walk(_, _)
shape_walk(nodes, shape) ==
    LET node == Head(nodes)
    IN IF node.kind \in ListLikeKinds
       THEN shape_walk(Tail(nodes),
                       Append(shape, IF node.kind = "RegularArray"
                                     THEN Dim(node.size) ELSE NoneDim))
       ELSE [shape |-> shape, node |-> node]

\* EmptyArray.to_NumpyArray(dtype=np.float64): a flat float64 buffer
to_NumpyArray(node) == Node("NumpyArray", 0, "float64", <<>>)

\* a variant that forgets the trailing dimensions of the terminal buffer
shape_dtype_flat_terminal(layout) ==
    LET w == shape_walk(layout.nodes, <<Dim(layout.length)>>)
        node == IF w.node.kind = "EmptyArray" THEN to_NumpyArray(w.node) ELSE w.node
    IN IF node.kind = "NumpyArray"
       THEN Ok([shape |-> w.shape, dtype |-> node.dtype])
       ELSE Raise("TypeError")

shape_dtype(layout) ==
    LET w == shape_walk(layout.nodes, <<Dim(layout.length)>>)
        node == IF w.node.kind = "EmptyArray" THEN to_NumpyArray(w.node) ELSE w.node
    IN IF node.kind = "NumpyArray"
       THEN Ok([shape |-> w.shape \o [i \in 1..Len(node.inner) |-> Dim(node.inner[i])],
                dtype |-> node.dtype])
       ELSE Raise("TypeError")

\* nodes that have a content: the list-like ones and an option-type wrapper
ContentNodes ==
    {Node(k, 0, "none", <<>>) : k \in ListKinds \cup {"IndexedOptionArray"}}
        \cup {Node("RegularArray", n, "none", <<>>) : n \in 0..MaxSize}

\* nodes that end a layout: buffers, the empty array, and a record
LeafNodes ==
    {Node("EmptyArray", 0, "none", <<>>), Node("RecordArray", 0, "none", <<>>)}
        \cup {Node("NumpyArray", 0, d, inner) :
                 d \in {"int64", "float64", "bool"},
                 inner \in SeqsUpTo(0..MaxSize, MaxInner)}

SdLayouts(depth) ==
    {[length |-> n, nodes |-> Append(ws, leaf)] :
        n \in 0..MaxLen, ws \in [1..depth -> ContentNodes], leaf \in LeafNodes}

SdInit ==
    /\ sd_pc = "start"
    /\ \E depth \in 0..MaxDepth : sd_layout \in SdLayouts(depth)
    /\ sd_out = Unset
    /\ CfIdle
    /\ ObjIdle
    /\ MtIdle
    /\ MmIdle
    /\ TkIdle
    /\ StIdle
    /\ HfIdle
    /\ MpIdle
    /\ UnIdle
    /\ PhIdle
    /\ ItIdle
    /\ RdIdle

ShapeDtype ==
    /\ sd_pc = "start"
    /\ sd_out' = shape_dtype(sd_layout)
    /\ sd_pc' = "done"
    /\ UNCHANGED <<sd_layout, cfVars, objVars, mtVars, mmVars, tkVars, stVars, hfVars, mpVars, unVars, phVars, itVars, rdVars>>

SdNext == ShapeDtype

SpecSD == SdInit /\ [][SdNext]_vars

(***************************************************************************)
(* _spec_indexing_functions.py: take(x, indices, axis=axis).  The axis     *)
(* argument is a record: given = FALSE stands for axis=None.               *)
(***************************************************************************)
AxisNone == [given |-> FALSE, a |-> 0]
Axis(a) == [given |-> TRUE, a |-> a]

\* a (possibly negative) index into a list of length n, as a 0-based position
wrapped(i, n) == IF i < 0 THEN i + n ELSE i

\* whether toslice[(slice(None),) * axis + (indexarray,)] finds every index
\* in every list of nesting level axis
RECURSIVE in_range(_, _, _)
in_range(val, axis, indexarray) ==
    IF axis = 0
    THEN \A k \in 1..Len(indexarray) :
            wrapped(indexarray[k], Len(val)) \in 0..(Len(val) - 1)
    ELSE \A r \in 1..Len(val) : in_range(val[r], axis - 1, indexarray)

\* toslice[(slice(None),) * axis + (indexarray,)]
RECURSIVE sliced(_, _, _)
sliced(val, axis, indexarray) ==
    IF axis = 0
    THEN [k \in 1..Len(indexarray) |-> val[wrapped(indexarray[k], Len(val)) + 1]]
    ELSE [r \in 1..Len(val) |-> sliced(val[r], axis - 1, indexarray)]

\* take(x, indices, axis=axis)
take(x, indices, axis) ==
    IF ~axis.given /\ x.ndim > 1 THEN Raise("TypeError")
    ELSE LET original_axis == IF axis.given THEN axis.a ELSE 0
             a == IF original_axis < 0 THEN original_axis + x.ndim + 1
                  ELSE original_axis
         IN IF ~(0 <= a /\ a < x.ndim) THEN Raise("AxisError")
            ELSE IF ~in_range(x.val, a, indices) THEN Raise("IndexError")
            ELSE Ok(sliced(x.val, a, indices))

\* the arrays of rank ndim taken from: a number, a list, a ragged matrix, or
\* a stack of at most one ragged matrix
TkInputs(ndim) ==
    IF ndim = 0 THEN {[ndim |-> 0, val |-> <<1>>]}
    ELSE IF ndim = 1 THEN {[ndim |-> 1, val |-> [k \in 1..n |-> k]] : n \in 0..MaxLen}
    ELSE IF ndim = 2
    THEN {[ndim |-> 2, val |-> Labelled(lens)] : lens \in RowLengths(MaxRows)}
    ELSE {[ndim |-> 3, val |-> LabelledStack(sh)] : sh \in Stacks(1)}

\* index arrays: one-dimensional, of integers, some of them negative or
\* beyond the longest list
TkIndices == SeqsUpTo((-1)..MaxLen, 2) \ {<<>>}

TkInit ==
    /\ tk_pc = "start"
    /\ \E ndim \in 0..3 :
          /\ tk_x \in TkInputs(ndim)
          /\ tk_axis \in {AxisNone} \cup {Axis(a) : a \in (-(ndim + 2))..(ndim + 1)}
    /\ tk_indices \in TkIndices
    /\ tk_out = Unset
    /\ CfIdle
    /\ ObjIdle
    /\ MtIdle
    /\ MmIdle
    /\ SdIdle
    /\ StIdle
    /\ HfIdle
    /\ MpIdle
    /\ UnIdle
    /\ PhIdle
    /\ ItIdle
    /\ RdIdle

Take ==
    /\ tk_pc = "start"
    /\ tk_out' = take(tk_x, tk_indices, tk_axis)
    /\ tk_pc' = "done"
    /\ UNCHANGED <<tk_x, tk_indices, tk_axis, cfVars, objVars, mtVars, mmVars, sdVars, stVars, hfVars, mpVars, unVars, phVars, itVars, rdVars>>

TkNext == Take

SpecTK == TkInit /\ [][TkNext]_vars

(***************************************************************************)
(* _spec_statistical_functions.py: _regularize_axis, _regularize_dtype,    *)
(* sum and prod.  An axis argument is None, an integer or a tuple of       *)
(* integers.                                                               *)
(***************************************************************************)
AxisArg(kind, a, t) == [kind |-> kind, a |-> a, t |-> t]

\* sorted(out)
RECURSIVE sorted(_)
sorted(s) ==
    IF s = <<>> THEN <<>>
    ELSE LET m == CHOOSE k \in 1..Len(s) : \A j \in 1..Len(s) : s[k] <= s[j]
         IN <<s[m]>> \o sorted([j \in 1..(Len(s) - 1) |-> IF j < m THEN s[j] ELSE s[j + 1]])

\* _regularize_axis(axis, ndim): in the tuple branch the range test only
\* builds a message, nothing is raised
regularize_axis(axis, ndim) ==
    IF axis.kind = "None" THEN Ok(axis)
    ELSE IF axis.kind = "int"
    THEN LET out == IF axis.a < 0 THEN axis.a + ndim ELSE axis.a
         IN IF ~(0 <= out /\ out < ndim) THEN Raise("AxisError")
            ELSE Ok(AxisArg("int", out, <<>>))
    ELSE LET out == [k \in 1..Len(axis.t) |->
                        IF axis.t[k] < 0 THEN axis.t[k] + ndim ELSE axis.t[k]]
         IN IF Len(out) = 0 THEN Raise("AxisError")
            ELSE Ok(AxisArg("tuple", 0, sorted(out)))

StDTypes == {"bool", "int32", "int64", "uint8", "uint64", "float32", "float64",
             "complex64", "complex128"}

\* np.dtype.kind
kind(dtype) ==
    IF dtype = "bool" THEN "b"
    ELSE IF dtype \in {"int32", "int64"} THEN "i"
    ELSE IF dtype \in {"uint8", "uint64"} THEN "u"
    ELSE IF dtype \in {"float32", "float64"} THEN "f"
    ELSE "c"

\* _regularize_dtype(dtype, array_dtype)
regularize_dtype(dtype, array_dtype) ==
    IF dtype = NoneArg
    THEN IF kind(array_dtype) \in {"b", "i"} THEN "int64"
         ELSE IF kind(array_dtype) = "u" THEN "uint64"
         ELSE IF kind(array_dtype) = "f" THEN "float64"
         ELSE "complex128"
    ELSE dtype

\* the dtype of an Awkward sum or product over values of the given dtype:
\* small integers are widened to 64 bits, everything else is kept
reduced_dtype(dtype) ==
    IF dtype \in {"bool", "int32"} THEN "int64"
    ELSE IF dtype = "uint8" THEN "uint64"
    ELSE dtype

RECURSIVE ProdSeq(_)
ProdSeq(s) == IF s = <<>> THEN 1 ELSE Head(s) * ProdSeq(Tail(s))

reduce_list(s, op) == IF op = "sum" THEN SumSeq(s) ELSE ProdSeq(s)

\* np.sum / np.prod of a value of rank ndim along one axis (None: all of it)
reduce_axis(v, a, op) ==
    IF a.kind = "None"
    THEN Ok([ndim |-> 0,
             val |-> reduce_list(IF v.ndim = 2 THEN ConcatAll(v.val)
                                 ELSE IF v.ndim = 1 THEN v.val ELSE <<v.val>>, op)])
    ELSE LET ax == IF a.a < 0 THEN a.a + v.ndim ELSE a.a
         IN IF v.ndim = 0
            THEN \* numpy takes axis 0 and -1 for a scalar and returns it
                 IF a.a \in {0, -1} THEN Ok([ndim |-> 0, val |-> v.val])
                 ELSE Raise("AxisError")
            ELSE IF ~(0 <= ax /\ ax < v.ndim)
            THEN \* Awkward refuses an axis beyond the depth of the array
                 Raise("ValueError")
            ELSE IF v.ndim = 1 THEN Ok([ndim |-> 0, val |-> reduce_list(v.val, op)])
            ELSE IF ax = 1
            THEN Ok([ndim |-> 1,
                     val |-> [r \in 1..Len(v.val) |-> reduce_list(v.val[r], op)]])
            ELSE Ok([ndim |-> 1,
                     val |-> [i \in 1..max_cols_of(v.val) |->
                                 reduce_list(column(v.val, i), op)]])

\* for axis_item in axis[::-1]: out = np.sum(out, axis=axis_item)
RECURSIVE reduce_axes(_, _, _)
reduce_axes(v, t, op) ==
    IF t = <<>> THEN Ok(v)
    ELSE LET r == reduce_axis(v, AxisArg("int", t[Len(t)], <<>>), op)
         IN IF r.err # "none" THEN r
            ELSE reduce_axes(r.val, SubSeq(t, 1, Len(t) - 1), op)

\* sum(x, axis=axis, dtype=dtype) and prod(x, axis=axis, dtype=dtype):
\* arr is the cast input only if x.dtype == dtype, and x itself otherwise
reduction(x, axis, dtype, op) ==
    LET ax == regularize_axis(axis, x.ndim)
        dt == regularize_dtype(dtype, x.dtype)
        arr_dtype == IF x.dtype = dt THEN dt ELSE x.dtype
        r == IF ax.err # "none" THEN ax
             ELSE IF ax.val.kind = "tuple" THEN reduce_axes(x, ax.val.t, op)
             ELSE reduce_axis(x, ax.val, op)
    IN IF r.err # "none" THEN r
       ELSE Ok([ndim |-> r.val.ndim, val |-> r.val.val,
                dtype |-> reduced_dtype(arr_dtype)])

\* the arrays reduced: lists and ragged matrices of every dtype
StInputs(ndim) ==
    IF ndim = 1
    THEN {[ndim |-> 1, dtype |-> dt, val |-> cast_cells([k \in 1..n |-> k], 1, dt)] :
             dt \in StDTypes, n \in 0..MaxLen}
    ELSE {[ndim |-> 2, dtype |-> dt, val |-> cast_cells(Labelled(lens), 2, dt)] :
             dt \in StDTypes, lens \in RowLengths(MaxRows)}

StAxes(ndim) ==
    {AxisArg("None", 0, <<>>)}
        \cup {AxisArg("int", a, <<>>) : a \in (-(ndim + 1))..ndim}
        \cup {AxisArg("tuple", 0, t) : t \in SeqsUpTo((-(ndim + 1))..ndim, 2)}

StDTypeArgs == {NoneArg, "int32", "int64", "float32", "float64"}

StInit ==
    /\ st_pc = "start"
    /\ \E ndim \in 1..2 :
          /\ st_x \in StInputs(ndim)
          /\ st_axis \in StAxes(ndim)
    /\ st_dtype \in StDTypeArgs
    /\ st_out = Unset
    /\ CfIdle
    /\ ObjIdle
    /\ MtIdle
    /\ MmIdle
    /\ SdIdle
    /\ TkIdle
    /\ HfIdle
    /\ MpIdle
    /\ UnIdle
    /\ PhIdle
    /\ ItIdle
    /\ RdIdle

RegularizeAxis ==
    /\ st_pc = "start"
    /\ st_out' = regularize_axis(st_axis, st_x.ndim)
    /\ st_pc' = "regularize_axis"
    /\ UNCHANGED <<st_x, st_axis, st_dtype, cfVars, objVars, mtVars, mmVars, sdVars, tkVars, hfVars, mpVars, unVars, phVars, itVars, rdVars>>

Sum ==
    /\ st_pc = "start"
    /\ st_out' = reduction(st_x, st_axis, st_dtype, "sum")
    /\ st_pc' = "sum"
    /\ UNCHANGED <<st_x, st_axis, st_dtype, cfVars, objVars, mtVars, mmVars, sdVars, tkVars, hfVars, mpVars, unVars, phVars, itVars, rdVars>>

Prod ==
    /\ st_pc = "start"
    /\ st_out' = reduction(st_x, st_axis, st_dtype, "prod")
    /\ st_pc' = "prod"
    /\ UNCHANGED <<st_x, st_axis, st_dtype, cfVars, objVars, mtVars, mmVars, sdVars, tkVars, hfVars, mpVars, unVars, phVars, itVars, rdVars>>

StNext == RegularizeAxis \/ Sum \/ Prod

SpecST == StInit /\ [][StNext]_vars

(***************************************************************************)
(* _helper_functions.py: is_effectively_regular and                        *)
(* is_sorted_descending_all_levels as functions of their own.              *)
(***************************************************************************)
\* is_effectively_regular(x).  Every item that iterating x yields is an
\* array, and an array has __len__, so the first `all` is always true and
\* only the lengths of the items of x are compared; len() of a
\* zero-dimensional array, iterating one, and x[0] of an empty x raise, and
\* every exception is turned into False.
is_effectively_regular(x) ==
    IF x.ndim = 0 THEN FALSE
    ELSE IF x.val = <<>> THEN FALSE
    ELSE IF x.ndim = 1 THEN FALSE
    ELSE \A r \in 1..Len(x.val) : Len(x.val[r]) = Len(x.val[1])

HfInputs(ndim) ==
    IF ndim = 0 THEN {[ndim |-> 0, dtype |-> dt, kinds |-> <<>>, val |-> <<1>>] : dt \in MtDTypes}
    ELSE MtInputs(ndim)

HfInit ==
    /\ hf_pc = "start"
    /\ \E ndim \in 0..3 : hf_x \in HfInputs(ndim)
    /\ hf_out = Unset
    /\ CfIdle
    /\ ObjIdle
    /\ MtIdle
    /\ MmIdle
    /\ SdIdle
    /\ TkIdle
    /\ StIdle
    /\ MpIdle
    /\ UnIdle
    /\ PhIdle
    /\ ItIdle
    /\ RdIdle

IsEffectivelyRegular ==
    /\ hf_pc = "start"
    /\ hf_out' = Ok(is_effectively_regular(hf_x))
    /\ hf_pc' = "is_effectively_regular"
    /\ UNCHANGED <<hf_x, cfVars, objVars, mtVars, mmVars, sdVars, tkVars, stVars, mpVars, unVars, phVars, itVars, rdVars>>

IsSortedDescendingAllLevels ==
    /\ hf_pc = "start"
    /\ hf_out' = is_sorted_descending_all_levels(hf_x)
    /\ hf_pc' = "is_sorted_descending_all_levels"
    /\ UNCHANGED <<hf_x, cfVars, objVars, mtVars, mmVars, sdVars, tkVars, stVars, mpVars, unVars, phVars, itVars, rdVars>>

HfNext == IsEffectivelyRegular \/ IsSortedDescendingAllLevels

SpecHF == HfInit /\ [][HfNext]_vars

(***************************************************************************)
(* _spec_manipulation_functions.py: expand_dims and squeeze.  An array is  *)
(* its recorded shape and its value; the value of a zero-dimensional array *)
(* is a number.                                                            *)
(***************************************************************************)
Arr(shape, val) == [shape |-> shape, val |-> val]

\* x._impl[(slice(None),) * axis + (np.newaxis,)]: every item at nesting
\* depth axis is wrapped in a list of length one
RECURSIVE newaxis_at(_, _)
newaxis_at(val, axis) ==
    IF axis = 0 THEN <<val>>
    ELSE [r \in 1..Len(val) |-> newaxis_at(val[r], axis - 1)]

\* out[(slice(None),) * i + (0,)]: every list at nesting depth i is replaced
\* by its first item
RECURSIVE first_at(_, _)
first_at(val, i) ==
    IF i = 0 THEN val[1]
    ELSE [r \in 1..Len(val) |-> first_at(val[r], i - 1)]

\* ak.num(out, axis=i), i >= 1: the lengths of the lists at nesting depth i
RECURSIVE num_at(_, _)
num_at(val, i) ==
    IF i = 1 THEN [r \in 1..Len(val) |-> Len(val[r])]
    ELSE num_at(ConcatAll(val), i - 1)

\* a variant that records the new dimension at the end of the shape
expand_dims_appending(x, axis) ==
    LET ndim == Len(x.shape)
        a == IF axis < 0 THEN axis + ndim + 1 ELSE axis
    IN IF ~(0 <= a /\ a <= ndim) THEN Raise("AxisError")
       ELSE Ok(Arr(x.shape \o <<Dim(1)>>, newaxis_at(x.val, a)))

\* expand_dims(x, axis=axis)
expand_dims(x, axis) ==
    LET ndim == Len(x.shape)
        a == IF axis < 0 THEN axis + ndim + 1 ELSE axis
    IN IF ~(0 <= a /\ a <= ndim) THEN Raise("AxisError")
       ELSE Ok(Arr(SubSeq(x.shape, 1, a) \o <<Dim(1)>> \o SubSeq(x.shape, a + 1, ndim),
                   newaxis_at(x.val, a)))

\* for axisitem in axis: the first item out of bounds, 0 if there is none
RECURSIVE first_bad_axis(_, _)
first_bad_axis(axis, ndim) ==
    IF axis = <<>> THEN 0
    ELSE LET posaxisitem == IF axis[1] < 0 THEN axis[1] + ndim ELSE axis[1]
         IN IF ~(0 <= posaxisitem /\ posaxisitem < ndim)
               /\ ~(posaxisitem = ndim /\ ndim = 0)
            THEN 1
            ELSE LET k == first_bad_axis(Tail(axis), ndim)
                 IN IF k = 0 THEN 0 ELSE k + 1

\* the shape without its entry number i
without(shape, i) == SubSeq(shape, 1, i - 1) \o SubSeq(shape, i + 1, Len(shape))

\* the loop of squeeze over the dimensions, from the last one (entry i of
\* the shape, counted from 1, is dimension i - 1) to the first
RECURSIVE squeeze_loop(_, _, _, _, _)
squeeze_loop(i, x, posaxis, shape, out) ==
    IF i = 0 THEN Ok(Arr(shape, out))
    ELSE IF (i - 1) \in posaxis
    THEN LET shapeitem == x.shape[i]
             lengths == IF i = 1 THEN <<Len(out)>> ELSE num_at(out, i - 1)
         IN IF shapeitem.none
            THEN IF \E k \in 1..Len(lengths) : lengths[k] # 1
                 THEN Raise("ValueError")
                 ELSE squeeze_loop(i - 1, x, posaxis, without(shape, i),
                                   first_at(out, i - 1))
            ELSE IF shapeitem.n = 1
            THEN IF \E k \in 1..Len(lengths) : lengths[k] = 0
                 THEN Raise("IndexError")   \* out[..., 0] of an empty list
                 ELSE squeeze_loop(i - 1, x, posaxis, without(shape, i),
                                   first_at(out, i - 1))
            ELSE Raise("ValueError")
    ELSE squeeze_loop(i - 1, x, posaxis, shape, out)

\* squeeze(x, axis), axis being a tuple (an integer is made a tuple first)
squeeze(x, axis) ==
    LET ndim == Len(x.shape)
        posaxis == {IF axis[k] < 0 THEN axis[k] + ndim ELSE axis[k] : k \in 1..Len(axis)}
    IN IF first_bad_axis(axis, ndim) # 0 THEN Raise("AxisError")
       ELSE IF ndim = 0 THEN Ok(Arr(x.shape, x.val))
       ELSE squeeze_loop(ndim, x, posaxis, x.shape, x.val)

\* a number, lists, and matrices: ragged ones, and regular ones of either
\* recorded shape
MpInputs(ndim) ==
    IF ndim = 0 THEN {Arr(<<>>, 1)}
    ELSE IF ndim = 1 THEN {Arr(<<Dim(n)>>, [k \in 1..n |-> k]) : n \in 0..MaxLen}
    ELSE {Arr(<<Dim(Len(lens)), NoneDim>>, Labelled(lens)) : lens \in RowLengths(MaxRows)}
            \cup {Arr(<<Dim(Len(lens)), Dim(lens[1])>>, Labelled(lens)) :
                     lens \in {l \in RowLengths(MaxRows) : l # <<>> /\ all_equal(l)}}

MpSqueezeAxes == SeqsUpTo((-3)..3, 2) \ {<<>>}

MpInit ==
    /\ mp_pc = "start"
    /\ \E ndim \in 0..2 :
          /\ mp_x \in MpInputs(ndim)
          /\ mp_axis \in (-(ndim + 2))..(ndim + 1)
    /\ mp_a = Unset
    /\ mp_sq_axis = <<>>
    /\ mp_b = Unset
    /\ CfIdle
    /\ ObjIdle
    /\ MtIdle
    /\ MmIdle
    /\ SdIdle
    /\ TkIdle
    /\ StIdle
    /\ HfIdle
    /\ UnIdle
    /\ PhIdle
    /\ ItIdle
    /\ RdIdle

ExpandDims ==
    /\ mp_pc = "start"
    /\ mp_a' = expand_dims(mp_x, mp_axis)
    /\ mp_pc' = "expanded"
    /\ UNCHANGED <<mp_x, mp_axis, mp_sq_axis, mp_b>>
    /\ UNCHANGED <<cfVars, objVars, mtVars, mmVars, sdVars, tkVars, stVars, hfVars, unVars, phVars, itVars, rdVars>>

Squeeze ==
    /\ mp_pc = "expanded"
    /\ mp_a.err = "none"
    /\ \E axis \in MpSqueezeAxes :
          /\ mp_sq_axis' = axis
          /\ mp_b' = squeeze(mp_a.val, axis)
    /\ mp_pc' = "squeezed"
    /\ UNCHANGED <<mp_x, mp_axis, mp_a>>
    /\ UNCHANGED <<cfVars, objVars, mtVars, mmVars, sdVars, tkVars, stVars, hfVars, unVars, phVars, itVars, rdVars>>

MpNext == ExpandDims \/ Squeeze

SpecMP == MpInit /\ [][MpNext]_vars

(***************************************************************************)
(* _spec_set_functions.py: unique_all.  Elements are small integers, so    *)
(* that arrays hold repeated elements.                                     *)
(***************************************************************************)
MaxValue == 3

\* ak.ravel(x._impl): the elements in buffer order
ak_ravel(x) ==
    IF x.ndim = 2 THEN ConcatAll(x.val) ELSE x.val

\* a sorted sequence without its repetitions
RECURSIVE distinct(_)
distinct(s) ==
    IF Len(s) <= 1 THEN s
    ELSE IF s[1] = s[2] THEN distinct(Tail(s))
    ELSE <<s[1]>> \o distinct(Tail(s))

\* the 1-based position of v in the sequence s that holds it once
position(s, v) == CHOOSE j \in 1..Len(s) : s[j] = v

\* np.unique(data, return_index=True, return_inverse=True,
\*           return_counts=True): indices are 0-based
np_unique(data) ==
    LET values == distinct(sorted(data))
    IN [values |-> values,
        indices |-> [j \in 1..Len(values) |->
                        (CHOOSE k \in 1..Len(data) :
                            /\ data[k] = values[j]
                            /\ \A l \in 1..(k - 1) : data[l] # values[j]) - 1],
        inverse_indices |-> [k \in 1..Len(data) |-> position(values, data[k]) - 1],
        counts |-> [j \in 1..Len(values) |->
                       Cardinality({k \in 1..Len(data) : data[k] = values[j]})]]

\* a variant that counts every unique value once
unique_all_counting_once(x) ==
    IF x.ndim = 0
    THEN [values |-> distinct(sorted(<<x.val>>)), indices |-> <<0>>,
          inverse_indices |-> <<0>>, counts |-> <<1>>]
    ELSE LET x_flat == ak_ravel(x)
             u == np_unique(x_flat)
         IN IF x_flat = <<>>
            THEN [values |-> <<>>, indices |-> <<>>, inverse_indices |-> <<>>,
                  counts |-> <<>>]
            ELSE [u EXCEPT !.counts = [j \in 1..Len(u.values) |-> 1]]

\* unique_all(x)
unique_all(x) ==
    IF x.ndim = 0
    THEN [values |-> distinct(sorted(<<x.val>>)), indices |-> <<0>>,
          inverse_indices |-> <<0>>, counts |-> <<1>>]
    ELSE LET x_flat == ak_ravel(x)
         IN IF x_flat = <<>>
            THEN [values |-> <<>>, indices |-> <<>>, inverse_indices |-> <<>>,
                  counts |-> <<>>]
            ELSE np_unique(x_flat)

\* a number, lists, and ragged matrices of up to two rows
UnInputs(ndim) ==
    IF ndim = 0 THEN {[ndim |-> 0, val |-> v] : v \in 1..MaxValue}
    ELSE IF ndim = 1 THEN {[ndim |-> 1, val |-> flat] : flat \in SeqsUpTo(1..MaxValue, MaxContent)}
    ELSE UNION {{[ndim |-> 2, val |-> ak_unflatten(flat, lens)] :
                    flat \in [1..SumSeq(lens) -> 1..MaxValue]}
                  : lens \in SeqsUpTo(0..MaxLen, 2)}

UnInit ==
    /\ un_pc = "start"
    /\ \E ndim \in 0..2 : un_x \in UnInputs(ndim)
    /\ un_out = Unset
    /\ CfIdle
    /\ ObjIdle
    /\ MtIdle
    /\ MmIdle
    /\ SdIdle
    /\ TkIdle
    /\ StIdle
    /\ HfIdle
    /\ MpIdle
    /\ PhIdle
    /\ ItIdle
    /\ RdIdle

UniqueAll ==
    /\ un_pc = "start"
    /\ un_out' = Ok(unique_all(un_x))
    /\ un_pc' = "done"
    /\ UNCHANGED <<un_x, cfVars, objVars, mtVars, mmVars, sdVars, tkVars, stVars, hfVars, mpVars, phVars, itVars, rdVars>>

UnNext == UniqueAll

SpecUN == UnInit /\ [][UnNext]_vars

(***************************************************************************)
(* The functions that are not implemented: tensordot and vecdot            *)
(* (_spec_linear_algebra_functions.py), broadcast_to, flip and reshape     *)
(* (_spec_manipulation_functions.py).  Each names its arguments and        *)
(* raises.                                                                 *)
(***************************************************************************)
tensordot(x1, x2, axes) == Raise("NotImplementedError")

vecdot(x1, x2, axis) == Raise("NotImplementedError")

reshape(x, shape) == Raise("NotImplementedError")

broadcast_to(x, shape) == Raise("NotImplementedError")

\* a variant that reverses a list
flip_reversing(x, axis) ==
    IF x.ndim = 1 THEN Ok([k \in 1..Len(x.val) |-> x.val[Len(x.val) + 1 - k]])
    ELSE Raise("NotImplementedError")

flip(x, axis) == Raise("NotImplementedError")

PhInit ==
    /\ ph_pc = "start"
    /\ \E ndim \in 0..2 : ph_x1 \in TkInputs(ndim)
    /\ \E ndim \in 0..2 : ph_x2 \in TkInputs(ndim)
    /\ ph_arg \in (-1)..2
    /\ ph_out = Unset
    /\ CfIdle
    /\ ObjIdle
    /\ MtIdle
    /\ MmIdle
    /\ SdIdle
    /\ TkIdle
    /\ StIdle
    /\ HfIdle
    /\ MpIdle
    /\ UnIdle
    /\ ItIdle
    /\ RdIdle

Tensordot ==
    /\ ph_pc = "start"
    /\ ph_out' = tensordot(ph_x1, ph_x2, ph_arg)
    /\ ph_pc' = "tensordot"
    /\ UNCHANGED <<ph_x1, ph_x2, ph_arg>>
    /\ UNCHANGED <<cfVars, objVars, mtVars, mmVars, sdVars, tkVars, stVars, hfVars, mpVars, unVars, itVars, rdVars>>

Vecdot ==
    /\ ph_pc = "start"
    /\ ph_out' = vecdot(ph_x1, ph_x2, ph_arg)
    /\ ph_pc' = "vecdot"
    /\ UNCHANGED <<ph_x1, ph_x2, ph_arg>>
    /\ UNCHANGED <<cfVars, objVars, mtVars, mmVars, sdVars, tkVars, stVars, hfVars, mpVars, unVars, itVars, rdVars>>

Reshape ==
    /\ ph_pc = "start"
    /\ ph_out' = reshape(ph_x1, ph_arg)
    /\ ph_pc' = "reshape"
    /\ UNCHANGED <<ph_x1, ph_x2, ph_arg>>
    /\ UNCHANGED <<cfVars, objVars, mtVars, mmVars, sdVars, tkVars, stVars, hfVars, mpVars, unVars, itVars, rdVars>>

BroadcastTo ==
    /\ ph_pc = "start"
    /\ ph_out' = broadcast_to(ph_x1, ph_arg)
    /\ ph_pc' = "broadcast_to"
    /\ UNCHANGED <<ph_x1, ph_x2, ph_arg>>
    /\ UNCHANGED <<cfVars, objVars, mtVars, mmVars, sdVars, tkVars, stVars, hfVars, mpVars, unVars, itVars, rdVars>>

Flip ==
    /\ ph_pc = "start"
    /\ ph_out' = flip(ph_x1, ph_arg)
    /\ ph_pc' = "flip"
    /\ UNCHANGED <<ph_x1, ph_x2, ph_arg>>
    /\ UNCHANGED <<cfVars, objVars, mtVars, mmVars, sdVars, tkVars, stVars, hfVars, mpVars, unVars, itVars, rdVars>>

PhNext == Tensordot \/ Vecdot \/ Reshape \/ BroadcastTo \/ Flip

SpecPH == PhInit /\ [][PhNext]_vars

(***************************************************************************)
(* _spec_array_object.py: array.__iter__.  An array is its recorded        *)
(* shape, dtype and device and its value.                                  *)
(***************************************************************************)
IterArr(shape, dtype, device, val) ==
    [shape |-> shape, dtype |-> dtype, device |-> device, val |-> val]

\* what the generator of x.__iter__ holds once its body has started: the
\* shape, dtype, device and backing value that x had at that moment
\* (sh = self._shape[1:], dt, dev and the iterator over self._impl), and
\* the number of items it has yielded
Generator(x, i) == [err |-> "none", x |-> x, i |-> i]

\* the array yielded for item i of the backing value the generator iterates
iter_item(g, i) ==
    LET sh == Tail(g.x.shape)
    IN IF sh = <<>>
       THEN IterArr(<<>>, g.x.dtype, g.x.device, g.x.val[i])
       ELSE IterArr(<<Dim(Len(g.x.val[i]))>> \o sh, g.x.dtype, g.x.device, g.x.val[i])

\* every number of a nested list of depth d increased by k
RECURSIVE add_scalar(_, _, _)
add_scalar(val, d, k) ==
    IF d = 0 THEN val + k
    ELSE [i \in 1..Len(val) |-> add_scalar(val[i], d - 1, k)]

\* the in-place operations the caller applies between two items
MaxRebinds == 1

ItInputs(ndim) ==
    {IterArr(a.shape, dt, dev, a.val) :
        a \in MpInputs(ndim), dt \in DTypes, dev \in Devices}

ItInit ==
    /\ it_pc = "start"
    /\ \E ndim \in 0..2 : it_x \in ItInputs(ndim)
    /\ it_out = Unset
    /\ it_gen = Unset
    /\ it_ops = 0
    /\ CfIdle
    /\ ObjIdle
    /\ MtIdle
    /\ MmIdle
    /\ SdIdle
    /\ TkIdle
    /\ StIdle
    /\ HfIdle
    /\ MpIdle
    /\ UnIdle
    /\ PhIdle
    /\ RdIdle

\* it = iter(x): a generator is made; its body has not started
Iter ==
    /\ it_pc = "start"
    /\ it_pc' = "created"
    /\ UNCHANGED <<it_x, it_out, it_gen, it_ops>>
    /\ UNCHANGED <<cfVars, objVars, mtVars, mmVars, sdVars, tkVars, stVars, hfVars, mpVars, unVars, phVars, rdVars>>

\* the first next(it): the body starts, reads x as it is now, and yields the
\* first item, ends (no item) or raises TypeError (zero-dimensional x)
FirstItem ==
    /\ it_pc = "created"
    /\ IF it_x.shape = <<>>
       THEN /\ it_out' = Raise("TypeError")
            /\ it_gen' = it_gen
            /\ it_pc' = "done"
       ELSE IF it_x.val = <<>>
       THEN /\ it_out' = Ok(<<>>)
            /\ it_gen' = Generator(it_x, 0)
            /\ it_pc' = "done"
       ELSE /\ it_out' = Ok(<<iter_item(Generator(it_x, 0), 1)>>)
            /\ it_gen' = Generator(it_x, 1)
            /\ it_pc' = "suspended"
    /\ UNCHANGED <<it_x, it_ops>>
    /\ UNCHANGED <<cfVars, objVars, mtVars, mmVars, sdVars, tkVars, stVars, hfVars, mpVars, unVars, phVars, rdVars>>

\* a later next(it): the next item of the backing value the generator
\* iterates, or the end of the iteration
NextItem ==
    /\ it_pc = "suspended"
    /\ IF it_gen.i < Len(it_gen.x.val)
       THEN /\ it_out' = Ok(Append(it_out.val, iter_item(it_gen, it_gen.i + 1)))
            /\ it_gen' = Generator(it_gen.x, it_gen.i + 1)
            /\ it_pc' = "suspended"
       ELSE /\ it_pc' = "done"
            /\ UNCHANGED <<it_out, it_gen>>
    /\ UNCHANGED <<it_x, it_ops>>
    /\ UNCHANGED <<cfVars, objVars, mtVars, mmVars, sdVars, tkVars, stVars, hfVars, mpVars, unVars, phVars, rdVars>>

\* x += 1 run by the caller while the generator is not running: x is
\* rebound to a new backing value, the one the generator iterates is untouched
RebindBetweenItems ==
    /\ it_pc \in {"created", "suspended"}
    /\ it_ops < MaxRebinds
    /\ it_x.shape # <<>>
    /\ it_x' = [it_x EXCEPT !.val = add_scalar(it_x.val, Len(it_x.shape), 1)]
    /\ it_ops' = it_ops + 1
    /\ UNCHANGED <<it_pc, it_out, it_gen>>
    /\ UNCHANGED <<cfVars, objVars, mtVars, mmVars, sdVars, tkVars, stVars, hfVars, mpVars, unVars, phVars, rdVars>>

ItNext == Iter \/ FirstItem \/ NextItem \/ RebindBetweenItems

SpecIT == ItInit /\ [][ItNext]_vars

\* ---------------------------------------------------------------------
\* round (src/ragged/_spec_elementwise_functions.py)
\*
\* Floating-point values are held as whole numbers of quarters, so that
\* 0.25, 0.5 and 0.75 fractions are exact: the value 2.5 is 10, -3.5 is -14.
\* A complex value is a record of two such numbers.

MaxQuarters == 14

Quarters == (-MaxQuarters)..MaxQuarters

\* the quarters that stand for integers
Integral == {q \in Quarters : q % 4 = 0}

absolute(q) == IF q < 0 THEN -q ELSE q

sign(q) == IF q < 0 THEN -1 ELSE IF q > 0 THEN 1 ELSE 0

\* np.modf: the integral part truncates toward zero and the fractional part
\* carries the sign of the value; both in quarters
np_modf(q) ==
    LET whole == IF q >= 0 THEN 4 * (q \div 4) ELSE -(4 * ((-q) \div 4))
    IN  [frac |-> q - whole, whole |-> whole]

\* Python/numpy remainder by a positive divisor: the sign of the divisor
np_mod(a, b) == a % b

truth(b) == IF b THEN 1 ELSE 0

\* a variant that sends every tie away from zero
round_value_half_away(q) ==
    LET frac == np_modf(q).frac
        whole == np_modf(q).whole
        abs_frac == absolute(frac)
    IN  whole + 4 * (truth(abs_frac = 2 \/ abs_frac > 2) * sign(frac))

\* whole + ((abs_frac == 0.5) * (whole % 2 != 0) + (abs_frac > 0.5)) * np.sign(frac)
round_value(q) ==
    LET frac == np_modf(q).frac
        whole == np_modf(q).whole
        abs_frac == absolute(frac)
        tie_odd == truth(abs_frac = 2) * truth(np_mod(whole, 8) # 0)
        above == truth(abs_frac > 2)
    IN  whole + 4 * ((tie_odd + above) * sign(frac))

RdArr(dtype, ndim, val) == [dtype |-> dtype, ndim |-> ndim, val |-> val]

\* the dtype of the arrays np.modf returns
modf_dtype(dtype) == IF dtype \in {"float32", "float64"} THEN dtype ELSE "float64"

RECURSIVE round(_)
round(x) ==
    IF x.dtype \in {"complex64", "complex128"}
    THEN LET dt == IF x.dtype = "complex64" THEN "float32" ELSE "float64"
             part(c, f) == IF f = "re" THEN c.re ELSE c.im
             parts(f) == IF x.ndim = 0 THEN part(x.val, f)
                         ELSE [i \in 1..Len(x.val) |-> part(x.val[i], f)]
             re == round(RdArr(dt, x.ndim, parts("re")))
             im == round(RdArr(dt, x.ndim, parts("im")))
         IN  \* multiply(round(im), array(1j)) is complex128 whatever dt is
             RdArr("complex128", x.ndim,
                   IF x.ndim = 0 THEN [re |-> re.val, im |-> im.val]
                   ELSE [i \in 1..Len(x.val) |-> [re |-> re.val[i], im |-> im.val[i]]])
    ELSE RdArr(modf_dtype(x.dtype), x.ndim,
               IF x.ndim = 0 THEN round_value(x.val)
               ELSE [i \in 1..Len(x.val) |-> round_value(x.val[i])])

RdDTypes == {"int64", "float32", "float64", "complex64", "complex128"}

RdValues(dtype) ==
    IF dtype = "int64" THEN Integral
    ELSE IF dtype \in {"complex64", "complex128"}
         THEN {[re |-> r, im |-> i] : r \in {-10, -3, 6}, i \in {-14, 2, 5}}
         ELSE Quarters

RdInputs(dtype, ndim) ==
    IF ndim = 0 THEN {RdArr(dtype, 0, v) : v \in RdValues(dtype)}
    ELSE {RdArr(dtype, 1, s) : s \in SeqsUpTo(RdValues(dtype), MaxLen)}

RdInit ==
    /\ rd_pc = "start"
    /\ \E dtype \in RdDTypes, ndim \in 0..1 : rd_x \in RdInputs(dtype, ndim)
    /\ rd_out = Unset
    /\ CfIdle
    /\ ObjIdle
    /\ MtIdle
    /\ MmIdle
    /\ SdIdle
    /\ TkIdle
    /\ StIdle
    /\ HfIdle
    /\ MpIdle
    /\ UnIdle
    /\ PhIdle
    /\ ItIdle

Round ==
    /\ rd_pc = "start"
    /\ rd_out' = round(rd_x)
    /\ rd_pc' = "done"
    /\ UNCHANGED <<rd_x, cfVars, objVars, mtVars, mmVars, sdVars, tkVars, stVars, hfVars, mpVars, unVars, phVars, itVars>>

RdNext == Round

SpecRD == RdInit /\ [][RdNext]_vars

\* what a caller can observe of the array behind handle h
View(h) == [val |-> heap[arrs[h].impl].val, ndim |-> heap[arrs[h].impl].ndim,
            shape |-> arrs[h].shape, dtype |-> arrs[h].dtype,
            device |-> arrs[h].device]

\* the same in the state after a step
ViewNext(h) == [val |-> heap'[arrs'[h].impl].val, ndim |-> heap'[arrs'[h].impl].ndim,
                shape |-> arrs'[h].shape, dtype |-> arrs'[h].dtype,
                device |-> arrs'[h].device]

\* what a caller can observe of a boxed result
ViewOfBoxed(out) == [val |-> out.impl.val, ndim |-> out.impl.ndim,
                     shape |-> out.shape, dtype |-> out.dtype,
                     device |-> out.device]

\* C1: for every two-dimensional x, from_cf_indexed(*to_cf_indexed(x))
\* returns an array whose nested-list value equals x.
C1_IndexedRoundTrip ==
    cf_pc = "done" => (cf_out.err = "none" /\ cf_out.val = cf_x)


\* C11: for every two-dimensional x, rows without elements and x without
\* rows included, from_cf_contiguous(*to_cf_contiguous(x)) returns an array
\* whose nested-list value equals x; the encoding is the flattened content
\* and the per-row counts.
C11_ContiguousRoundTrip ==
    /\ cf_pc \in {"contiguous", "done_contiguous"}
          => /\ cf_content = ConcatAll(cf_x)
             /\ cf_counts = [r \in 1..Len(cf_x) |-> Len(cf_x[r])]
    /\ cf_pc = "done_contiguous" => (cf_out.err = "none" /\ cf_out.val = cf_x)

\* a round trip of an array with a row without elements between rows with
\* elements, and one of an array whose last row has none
C11_Witness ==
    /\ cf_pc = "done_contiguous"
    /\ Len(cf_x) >= 2
    /\ cf_x[1] # <<>>
    /\ cf_x[Len(cf_x)] = <<>>
    /\ cf_out.val = cf_x

\* the rows the caller's index describes: row r holds the elements whose
\* index is r, in the order they have in the content
ClaimedRows(c, i) ==
    [r \in 1..(MaxSeq(i) + 1) |->
        LET pos == SelectSeq([k \in 1..Len(i) |-> k], LAMBDA k : i[k] = r - 1)
        IN [n \in 1..Len(pos) |-> c[pos[n]]]]

\* C12: for a content c and an index i of the same length, i holding row
\* numbers in any order, from_cf_indexed(c, i) returns max(i) + 1 rows, row r
\* being the elements c[k] with i[k] = r in their original relative order.
C12_IndexedAnyOrder ==
    (cf_pc = "decoded" /\ cf_index # <<>>)
        => /\ cf_out.err = "none"
           /\ cf_out.val = ClaimedRows(cf_content, cf_index)

\* C2: an in-place operator on handle a leaves the values, shape, dtype and
\* device of every other handle unchanged (also of a handle that shares a's
\* backing value), creates no handle, and leaves a holding the result of the
\* corresponding out-of-place operation.
C2_InPlaceRebindsOnly ==
    [][(last'.n # last.n /\ last'.op \in BinOps) =>
          /\ Len(arrs') = Len(arrs)
          /\ \A b \in Handles \ {last'.target} : ViewNext(b) = View(b)
          /\ ViewNext(last'.target)
                = ViewOfBoxed(binary_method(last'.op, last'.target, last'.other))]_vars

\* an in-place operator has acted on a handle that shared its backing value
\* with another handle, and the two now hold different values
C2_Witness ==
    /\ last.op \in BinOps
    /\ last.shared
    /\ \E b \in Handles \ {last.target} :
          /\ arrs[b].impl # arrs[last.target].impl
          /\ heap[arrs[b].impl].val # heap[arrs[last.target].impl].val

\* C13: every array produced by the constructor, by _box or by an in-place
\* operator has a dense zero-dimensional backing value (a 0-d numpy or cupy
\* buffer, never a bare scalar) exactly when its shape is (), and an ak.Array
\* exactly when its shape has length >= 1.
C13_RepresentationByRank ==
    \A h \in Handles :
        LET v == heap[arrs[h].impl]
        IN /\ arrs[h].shape = <<>> <=> (v.lib \in {"np", "cp"} /\ v.ndim = 0)
           /\ Len(arrs[h].shape) >= 1 <=> v.lib = "ak"

\* C14: every array has a dtype of the fixed set numeric_types: the
\* constructor refuses any other dtype, and no operation that boxes a result
\* with an explicit dtype (astype among them) yields an array outside the set.
C14_DTypeInFixedSet ==
    \A h \in Handles : arrs[h].dtype \in numeric_types

\* C16: for every array x and every supported dtype d2, astype(x, d2) has
\* dtype exactly d2, the shape and the device of x, and the elements of x
\* cast to d2.
C16_Astype ==
    (last.op = "astype" /\ last.arg \in numeric_types)
        => LET x == arrs[last.other.h]
               y == arrs[last.target]
           IN /\ y.dtype = last.arg
              /\ y.shape = x.shape
              /\ y.device = x.device
              /\ heap[y.impl].val =
                    [i \in 1..Len(heap[x.impl].val) |->
                        cast_value(heap[x.impl].val[i], last.arg)]

\* the list-like wrappers above the terminal of the layout under study
Wrappers == SubSeq(sd_layout.nodes, 1, Len(sd_layout.nodes) - 1)

Terminal == sd_layout.nodes[Len(sd_layout.nodes)]

\* nested list / fixed-size wrappers only, ending in a buffer or in nothing
ListsOverBuffer ==
    /\ \A i \in 1..Len(Wrappers) : Wrappers[i].kind \in ListLikeKinds
    /\ Terminal.kind \in {"NumpyArray", "EmptyArray"}

ClaimedShape ==
    <<Dim(sd_layout.length)>>
        \o [i \in 1..Len(Wrappers) |->
               IF Wrappers[i].kind = "RegularArray" THEN Dim(Wrappers[i].size)
               ELSE NoneDim]
        \o (IF Terminal.kind = "NumpyArray"
            THEN [i \in 1..Len(Terminal.inner) |-> Dim(Terminal.inner[i])]
            ELSE <<>>)

\* C15: for list / fixed-size wrappers over a flat buffer _shape_dtype
\* returns the outer length, then None per list level and the size per
\* fixed-size level, then the buffer's trailing dimensions, with the
\* buffer's dtype; an empty terminal counts as a float64 buffer; every
\* other node met where the buffer should be raises TypeError.
C15_ShapeDtype ==
    sd_pc = "done"
        => IF ListsOverBuffer
           THEN /\ sd_out.err = "none"
                /\ sd_out.val.shape = ClaimedShape
                /\ sd_out.val.dtype = (IF Terminal.kind = "EmptyArray"
                                       THEN "float64" ELSE Terminal.dtype)
           ELSE sd_out = Raise("TypeError")

\* a fixed-size level over a list level over a buffer with a trailing dimension
C15_Witness ==
    /\ sd_pc = "done"
    /\ Len(Wrappers) = 2
    /\ Wrappers[1].kind = "RegularArray"
    /\ Wrappers[2].kind \in ListKinds
    /\ Terminal.kind = "NumpyArray"
    /\ Terminal.inner # <<>>
    /\ sd_out.err = "none"
    /\ Len(sd_out.val.shape) = 4

\* the selection along the (0-based, non-negative) axis the claim describes
SelectedAlong(axis) ==
    IF in_range(tk_x.val, axis, tk_indices)
    THEN Ok(sliced(tk_x.val, axis, tk_indices))
    ELSE Raise("IndexError")

\* C20: with an integer axis a, take selects along axis a for
\* 0 <= a < x.ndim and along axis a + x.ndim for -x.ndim <= a < 0 (so -1 is
\* the last axis, as x.ndim - 1 is), and raises an axis error for every
\* other a.
C20_TakeAxis ==
    (tk_pc = "done" /\ tk_axis.given)
        => LET n == tk_x.ndim
               a == tk_axis.a
           IN IF a < -n \/ a >= n THEN tk_out = Raise("AxisError")
              ELSE tk_out = SelectedAlong(IF a < 0 THEN a + n ELSE a)

\* C21: sum and prod return an array of the resolved dtype: the dtype
\* argument when given, otherwise int64 for boolean and signed integers,
\* uint64 for unsigned ones, float64 for real and complex128 for complex x.
C21_ReductionDType ==
    (st_pc \in {"sum", "prod"} /\ st_out.err = "none")
        => st_out.val.dtype =
              (IF st_dtype # NoneArg THEN st_dtype
               ELSE IF st_x.dtype \in {"bool", "int32", "int64"} THEN "int64"
               ELSE IF st_x.dtype \in {"uint8", "uint64"} THEN "uint64"
               ELSE IF st_x.dtype \in {"float32", "float64"} THEN "float64"
               ELSE "complex128")

\* C27: _regularize_axis raises an axis error for every axis outside
\* [-ndim, ndim), given alone or in a tuple, and for the empty tuple;
\* otherwise it returns the axes made non-negative, a tuple sorted ascending.
C27_RegularizeAxis ==
    (st_pc = "regularize_axis" /\ st_axis.kind # "None")
        => LET n == st_x.ndim
               InBounds(a) == -n <= a /\ a < n
               Norm(a) == IF a < 0 THEN a + n ELSE a
           IN IF st_axis.kind = "int"
              THEN IF InBounds(st_axis.a)
                   THEN st_out = Ok(AxisArg("int", Norm(st_axis.a), <<>>))
                   ELSE st_out = Raise("AxisError")
              ELSE IF st_axis.t = <<>>
                      \/ \E k \in 1..Len(st_axis.t) : ~InBounds(st_axis.t[k])
                   THEN st_out = Raise("AxisError")
                   ELSE /\ st_out.err = "none"
                        /\ st_out.val.kind = "tuple"
                        /\ Len(st_out.val.t) = Len(st_axis.t)
                        /\ \A k \in 1..Len(st_axis.t) :
                              \E j \in 1..Len(st_axis.t) :
                                  st_out.val.t[j] = Norm(st_axis.t[k])
                        /\ \A j \in 1..(Len(st_axis.t) - 1) :
                              st_out.val.t[j] <= st_out.val.t[j + 1]

\* C22: for x of rank >= 2 with at least one row, is_effectively_regular
\* returns True exactly when the lists of every nesting level, the
\* innermost included, all have one length.
C22_EffectivelyRegular ==
    (hf_pc = "is_effectively_regular" /\ hf_x.ndim >= 2 /\ hf_x.val # <<>>)
        => /\ hf_out.err = "none"
           /\ hf_out.val = (\A j \in 1..(hf_x.ndim - 1) :
                               all_equal(level_lengths(hf_x.val, j)))

\* C26: is_sorted_descending_all_levels returns True exactly when, at every
\* nesting level, the lengths of the lists of that level in flattened order
\* (across the boundaries of their parents) never increase.
C26_SortedDescending ==
    (hf_pc = "is_sorted_descending_all_levels" /\ hf_x.ndim >= 1)
        => /\ hf_out.err = "none"
           /\ hf_out.val = (\A j \in 1..(hf_x.ndim - 1) :
                               non_increasing(level_lengths(hf_x.val, j)))

\* C23: for every array x and every axis with 0 <= axis <= x.ndim,
\* expand_dims succeeds and squeeze(expand_dims(x, axis=axis), axis=axis)
\* has the shape and the nested-list value of x.
C23_SqueezeUndoesExpandDims ==
    (0 <= mp_axis /\ mp_axis <= Len(mp_x.shape))
        => /\ mp_pc \in {"expanded", "squeezed"} => mp_a.err = "none"
           /\ (mp_pc = "squeezed" /\ mp_sq_axis = <<mp_axis>>)
                 => /\ mp_b.err = "none"
                    /\ mp_b.val.shape = mp_x.shape
                    /\ mp_b.val.val = mp_x.val

\* a ragged matrix given a new last dimension and squeezed back
C23_Witness ==
    /\ mp_pc = "squeezed"
    /\ mp_axis = 2
    /\ mp_sq_axis = <<2>>
    /\ mp_x.shape = <<Dim(2), NoneDim>>
    /\ mp_x.val = <<<<1, 2>>, <<>>>>
    /\ mp_a.val.val = <<<<<<1>>, <<2>>>>, <<>>>>
    /\ mp_b.err = "none"
    /\ mp_b.val.val = mp_x.val

\* the elements of x in flattened order
Flattened(x) ==
    IF x.ndim = 0 THEN <<x.val>>
    ELSE IF x.ndim = 1 THEN x.val
    ELSE ConcatAll(x.val)

\* C24: the values of unique_all(x) ascend strictly (sorted, no
\* duplicates), the counts add up to the number of elements of the
\* flattened x, and values[inverse_indices[k]] is the k-th element of the
\* flattened x for every k.
C24_UniqueAll ==
    un_pc = "done"
        => LET u == un_out.val
               flat == Flattened(un_x)
           IN /\ \A j \in 1..(Len(u.values) - 1) : u.values[j] < u.values[j + 1]
              /\ SumSeq(u.counts) = Len(flat)
              /\ Len(u.inverse_indices) = Len(flat)
              /\ \A k \in 1..Len(flat) :
                    /\ u.inverse_indices[k] + 1 \in 1..Len(u.values)
                    /\ u.values[u.inverse_indices[k] + 1] = flat[k]

\* a ragged matrix holding an element twice, in different rows
C24_Witness ==
    /\ un_pc = "done"
    /\ un_x.ndim = 2
    /\ un_x.val = <<<<2, 1>>, <<2>>>>
    /\ un_out.val.values = <<1, 2>>
    /\ un_out.val.counts = <<1, 2>>
    /\ un_out.val.inverse_indices = <<1, 0, 1>>

\* C25: tensordot, vecdot, reshape, broadcast_to and flip raise
\* NotImplementedError for every input and never return a value.
C25_PlaceholdersRaise ==
    ph_pc \in {"tensordot", "vecdot", "reshape", "broadcast_to", "flip"}
        => ph_out = Raise("NotImplementedError")

\* flip called on a list of two elements
C25_Witness ==
    /\ ph_pc = "flip"
    /\ ph_x1.ndim = 1
    /\ ph_x1.val = <<1, 2>>
    /\ ph_out.err = "NotImplementedError"

\* C28: iterating x of rank n >= 1 yields len(x) arrays in order, the i-th
\* with the value of x[i], of rank n - 1, its recorded shape being the one
\* of its own value (its length followed by x.shape[2:], or () for n = 1),
\* with the dtype and device of x; a zero-dimensional x raises TypeError.
C28_Iteration ==
    /\ (it_pc = "done" /\ it_x.shape = <<>>) => it_out = Raise("TypeError")
    /\ (it_pc \in {"suspended", "done"} /\ it_x.shape # <<>>) =>
          /\ it_out.err = "none"
          /\ Len(it_out.val) = it_gen.i
          /\ it_pc = "done" => it_gen.i = Len(it_gen.x.val)
          /\ \A i \in 1..it_gen.i :
                LET item == it_out.val[i]
                    x == it_gen.x
                IN /\ item.val = x.val[i]
                   /\ Len(item.shape) = Len(x.shape) - 1
                   /\ item.shape =
                         (IF Len(x.shape) = 1 THEN <<>>
                          ELSE <<Dim(Len(x.val[i]))>> \o SubSeq(x.shape, 3, Len(x.shape)))
                   /\ item.dtype = x.dtype
                   /\ item.device = x.device

\* C29: a reflected operator applies the operation with the operands in
\* the written order: for a Python scalar k and an array x, k - x holds
\* k - x_i for every element x_i (as subtract(array(k), x) does), not x_i - k.
C29_ReflectedOperandOrder ==
    last.op = "reflected_sub"
        => LET k == last.other.v.val[1]
               x == heap[arrs[last.self].impl].val
               r == heap[arrs[last.target].impl].val
           IN /\ Len(r) = Len(x)
              /\ \A i \in 1..Len(x) : r[i] = scalar_op("sub", k, x[i])

\* C30: round sends every real element to the nearest integer-valued number,
\* and an element exactly half-way between two integers to the even one.
RealElements(x) == IF x.ndim = 0 THEN <<x.val>> ELSE x.val

C30_RoundHalfEven ==
    (rd_pc = "done" /\ rd_x.dtype \notin {"complex64", "complex128"}) =>
        /\ rd_out.ndim = rd_x.ndim
        /\ Len(RealElements(rd_out)) = Len(RealElements(rd_x))
        /\ \A i \in 1..Len(RealElements(rd_x)) :
              LET v == RealElements(rd_x)[i]
                  r == RealElements(rd_out)[i]
              IN  /\ r % 4 = 0
                  /\ \A n \in (-MaxQuarters - 4)..(MaxQuarters + 4) :
                        n % 4 = 0 => absolute(r - v) <= absolute(n - v)
                  /\ absolute(r - v) = 2 => r % 8 = 0

\* a negative value half-way between an odd and an even integer was rounded
C30_Witness ==
    /\ rd_pc = "done"
    /\ rd_x.dtype = "float64"
    /\ rd_x.ndim = 1
    /\ \E i \in 1..Len(rd_x.val) : rd_x.val[i] = -14 /\ rd_out.val[i] = -16
    /\ \E i \in 1..Len(rd_x.val) : rd_x.val[i] = 10 /\ rd_out.val[i] = 8

\* C3: the device tag of every array equals the residency of its backing value.
C3_DeviceTagIsResidency ==
    \A h \in Handles : arrs[h].device = Residency(heap[arrs[h].impl])


\* the lists at some nesting level of x are not sorted from longest to
\* shortest: a list is longer than the list that precedes it
Unsorted(x) ==
    \E j \in 1..(x.ndim - 1) : ~non_increasing(level_lengths(x.val, j))

\* C4: matrix_transpose raises ValueError for every input of rank >= 2 whose
\* list lengths at some nesting level are not sorted from longest to shortest.
C4_UnsortedRaises ==
    (mt_pc = "done" /\ mt_x.ndim >= 2 /\ Unsorted(mt_x))
        => mt_out.err = "ValueError"

\* the transpose the claim describes: entry i of a matrix is
\* [row[i] for every row, in row order, whose length exceeds i]
ClaimedMatrix(mat) ==
    [i \in 1..max_cols_of(mat) |->
        LET rows == SelectSeq(mat, LAMBDA row : Len(row) >= i)
        IN [r \in 1..Len(rows) |-> rows[r][i]]]

ClaimedTranspose(x) ==
    IF x.ndim = 2 THEN ClaimedMatrix(x.val)
    ELSE [b \in 1..Len(x.val) |-> ClaimedMatrix(x.val[b])]

\* two nested lists of the same depth d are the same list
RECURSIVE SameList(_, _, _)
SameList(a, b, d) ==
    /\ Len(a) = Len(b)
    /\ \A i \in 1..Len(a) :
          IF d = 1 THEN a[i] = b[i] ELSE SameList(a[i], b[i], d - 1)

\* C5: for every input of rank >= 2 that passes the descending-length check,
\* whatever its dtype, matrix_transpose replaces each innermost matrix by its
\* column lists and leaves the batch structure unchanged.
C5_TransposeEveryDtype ==
    (mt_pc = "done" /\ mt_x.ndim >= 2 /\ is_sorted_descending_all_levels(mt_x).val)
        => /\ mt_out.err = "none"
           /\ SameList(mt_out.val, ClaimedTranspose(mt_x), mt_x.ndim)

\* the matrices of an operand of rank 2 (one batch) or 3
MatricesOf(x) == IF x.ndim = 2 THEN <<x.val>> ELSE x.val

\* the products of two blocks of the operands: the calls of _matmul_2d,
\* for operands of rank 2 or 3, whose arguments are matrices of x1 and x2
\* as they stand
BlockCalls ==
    IF mm_x1.ndim >= 2 /\ mm_x2.ndim >= 2
    THEN {i \in 1..Len(mm_calls) :
             /\ mm_calls[i].a =
                  MatricesOf(mm_x1)[batch_index(i, Len(MatricesOf(mm_x1)))]
             /\ mm_calls[i].b =
                  MatricesOf(mm_x2)[batch_index(i, Len(MatricesOf(mm_x2)))]}
    ELSE {}

\* a row right-padded with zeros to width n
ZeroPadded(row, n) == [k \in 1..n |-> IF k <= Len(row) THEN row[k] ELSE 0]

AllRowsEmpty(mat) == \A r \in 1..Len(mat) : mat[r] = <<>>

\* every matrix of x has M >= 1 rows of one length N >= 1, and the matrices
\* of a stack have one shape
RegularMatrices(x) ==
    /\ x.ndim >= 2
    /\ LET mats == MatricesOf(x)
       IN \A b \in 1..Len(mats) :
             /\ Len(mats[b]) >= 1
             /\ Len(mats[b]) = Len(mats[1])
             /\ \A r \in 1..Len(mats[b]) :
                   Len(mats[b][r]) >= 1 /\ Len(mats[b][r]) = Len(mats[1][1])

\* C17: for every regular matrix x of M >= 1 rows of one length N >= 1, and
\* every stack of such equally-shaped matrices, transposing twice succeeds
\* and returns the nested-list value of x.
C17_TransposeInvolution ==
    (mt_pc \in {"done", "twice"} /\ RegularMatrices(mt_x))
        => /\ mt_out.err = "none"
           /\ mt_pc = "twice"
                 => /\ mt_twice.err = "none"
                    /\ SameList(mt_twice.val, mt_x.val, mt_x.ndim)

\* C18: for every valid input of a supported dtype the array returned by
\* matrix_transpose has the dtype of the input.
C18_TransposeKeepsDtype ==
    (mt_pc = "done" /\ mt_out.err = "none") => mt_out.dtype = mt_x.dtype

\* C19: a block of M rows that are all empty transposes to a block without
\* elements whose row and column counts are exchanged: no rows at all.
C19_AllEmptyBlock ==
    (mt_pc = "done" /\ mt_x.ndim >= 2 /\ is_sorted_descending_all_levels(mt_x).val)
        => /\ mt_out.err = "none"
           /\ \A b \in 1..Len(MatricesOf(mt_x)) :
                 (MatricesOf(mt_x)[b] # <<>> /\ AllRowsEmpty(MatricesOf(mt_x)[b]))
                     => MatricesOf([ndim |-> mt_x.ndim, val |-> mt_out.val])[b] = <<>>

\* the product the claim describes for blocks a (K = its widest row) and b
ClaimedProduct(a, b) ==
    LET K == max_cols_of(a)
        N == max_cols_of(b)
    IN [r \in 1..Len(a) |->
           IF a[r] = <<>> THEN <<>>
           ELSE [c \in 1..N |->
                    SumSeq([k \in 1..K |->
                               ZeroPadded(a[r], K)[k] * ZeroPadded(b[k], N)[c]])]]

\* C6: for two-dimensional blocks a and b with at least one row each, where
\* the widest row of a has as many entries as b has rows, the product has an
\* empty row for every empty row of a and otherwise N entries, each the sum
\* of the products of the zero-padded row of a and column of b.
C6_ZeroPaddedProduct ==
    \A i \in BlockCalls :
        LET call == mm_calls[i]
        IN (Len(call.a) >= 1 /\ Len(call.b) >= 1
            /\ max_cols_of(call.a) = Len(call.b))
               => /\ call.out.err = "none"
                  /\ call.out.val = ClaimedProduct(call.a, call.b)

\* a matrix of M >= 1 rows that all have the same length >= 1
IsRegular(mat) ==
    /\ Len(mat) >= 1
    /\ Len(mat[1]) >= 1
    /\ \A r \in 1..Len(mat) : Len(mat[r]) = Len(mat[1])

\* C7: the rank of the result follows from the operand ranks alone, for all
\* sizes M, K, N >= 1: (M,K) x (K,N) is two-dimensional of shape (M,N);
\* (K,) x (K,N) is one-dimensional of length N; (M,K) x (K,) is
\* one-dimensional of length M; (K,) x (K,) is zero-dimensional and holds the
\* inner product.
C7_RankFromOperandRanks ==
    mm_pc = "done" =>
        /\ (mm_x1.ndim = 2 /\ mm_x2.ndim = 2
            /\ IsRegular(mm_x1.val) /\ IsRegular(mm_x2.val)
            /\ Len(mm_x1.val[1]) = Len(mm_x2.val))
              => /\ mm_out.err = "none"
                 /\ mm_out.ndim = 2
                 /\ Len(mm_out.val) = Len(mm_x1.val)
                 /\ \A r \in 1..Len(mm_out.val) :
                       Len(mm_out.val[r]) = Len(mm_x2.val[1])
        /\ (mm_x1.ndim = 1 /\ mm_x2.ndim = 2 /\ IsRegular(mm_x2.val)
            /\ Len(mm_x1.val) = Len(mm_x2.val))
              => /\ mm_out.err = "none"
                 /\ mm_out.ndim = 1
                 /\ Len(mm_out.val) = Len(mm_x2.val[1])
        /\ (mm_x1.ndim = 2 /\ mm_x2.ndim = 1 /\ IsRegular(mm_x1.val)
            /\ Len(mm_x1.val[1]) = Len(mm_x2.val))
              => /\ mm_out.err = "none"
                 /\ mm_out.ndim = 1
                 /\ Len(mm_out.val) = Len(mm_x1.val)
        /\ (mm_x1.ndim = 1 /\ mm_x2.ndim = 1
            /\ Len(mm_x1.val) = Len(mm_x2.val))
              => /\ mm_out.err = "none"
                 /\ mm_out.ndim = 0
                 /\ mm_out.val =
                      <<SumSeq([k \in 1..Len(mm_x1.val) |->
                                   mm_x1.val[k] * mm_x2.val[k]])>>

\* the contracted dimensions of two blocks with at least one row each
\* disagree: the widest row of a does not have as many entries as b has rows
ContractionMismatch(a, b) ==
    Len(a) >= 1 /\ Len(b) >= 1 /\ max_cols_of(a) # Len(b)

\* C8 as stated: matmul raises ValueError whenever the contracted dimensions
\* disagree, for one-dimensional operands of different lengths and for
\* two-dimensional blocks.
C8_MismatchRaises ==
    mm_pc = "done" =>
        /\ (mm_x1.ndim = 1 /\ mm_x2.ndim = 1 /\ Len(mm_x1.val) # Len(mm_x2.val))
              => mm_out.err = "ValueError"
        /\ \A i \in BlockCalls :
              ContractionMismatch(mm_calls[i].a, mm_calls[i].b)
                 => /\ mm_calls[i].out.err = "ValueError"
                    /\ mm_out.err = "ValueError"

\* C8 (amended): matmul raises ValueError whenever the contracted dimensions
\* disagree, except for two blocks in which every row is empty, whose
\* product is one empty row per row of the left block.
C8_MismatchRaisesUnlessAllEmpty ==
    mm_pc = "done" =>
        /\ (mm_x1.ndim = 1 /\ mm_x2.ndim = 1 /\ Len(mm_x1.val) # Len(mm_x2.val))
              => mm_out.err = "ValueError"
        /\ \A i \in BlockCalls :
              LET call == mm_calls[i]
              IN ContractionMismatch(call.a, call.b)
                    => IF AllRowsEmpty(call.a) /\ AllRowsEmpty(call.b)
                       THEN /\ call.out.err = "none"
                            /\ call.out.val = [r \in 1..Len(call.a) |-> <<>>]
                       ELSE /\ call.out.err = "ValueError"
                            /\ mm_out.err = "ValueError"

\* a product of two-dimensional operands with rows that hold numbers was
\* refused for its contracted dimension
C8_Witness ==
    /\ mm_pc = "done"
    /\ mm_x1.ndim = 2 /\ mm_x2.ndim = 2
    /\ ~AllRowsEmpty(mm_x1.val) /\ ~AllRowsEmpty(mm_x2.val)
    /\ ContractionMismatch(mm_x1.val, mm_x2.val)
    /\ mm_out.err = "ValueError"

\* C9: every failure of matmul is a ValueError: a zero-dimensional operand
\* raises ValueError, and operands of rank 1, 2 or 3 give an array or a
\* ValueError, never another exception.
C9_OnlyValueError ==
    mm_pc = "done" =>
        /\ (mm_x1.ndim = 0 \/ mm_x2.ndim = 0) => mm_out.err = "ValueError"
        /\ mm_out.err \in {"none", "ValueError"}

\* C10: with an operand of more than two dimensions and batch counts B1, B2
\* (rank 2 counts as one batch): if B1 = B2 or either is 1 the result stacks
\* max(B1, B2) matrices, matrix i being the two-dimensional product of
\* matrix (i mod B1) of x1 and matrix (i mod B2) of x2; otherwise ValueError.
C10_BatchBroadcast ==
    (mm_pc = "done" /\ mm_x1.ndim \in {2, 3} /\ mm_x2.ndim \in {2, 3}
     /\ (mm_x1.ndim = 3 \/ mm_x2.ndim = 3)
     /\ Len(MatricesOf(mm_x1)) >= 1 /\ Len(MatricesOf(mm_x2)) >= 1)
        => LET m1 == MatricesOf(mm_x1)
               m2 == MatricesOf(mm_x2)
               B1 == Len(m1)
               B2 == Len(m2)
               n == IF B1 > B2 THEN B1 ELSE B2
               prod == [i \in 0..(n - 1) |->
                           matmul_2d(m1[(i % B1) + 1], m2[(i % B2) + 1])]
           IN IF B1 = B2 \/ B1 = 1 \/ B2 = 1
              THEN (\A i \in 0..(n - 1) : prod[i].err = "none")
                      => /\ mm_out.err = "none"
                         /\ Len(mm_out.val) = n
                         /\ \A i \in 0..(n - 1) : mm_out.val[i + 1] = prod[i].val
              ELSE mm_out.err = "ValueError"

====
